---- MODULE Spec2Model ----
(***************************************************************************)
(* A model of the ogphelper scheduling engine: the candidate generator,    *)
(* the heuristic day solver, the schedule validator and the weekly          *)
(* coordinator.  Python floats that only carry small integers or halves    *)
(* and tenths are kept exact by scaling (the scale is named at each score). *)
(***************************************************************************)
EXTENDS Integers, Sequences, FiniteSets, TLC

VARIABLES
    pc,            \* position of the running procedure
    gen_in,        \* the arguments of a function called on its own
    gen_out,       \* its return value
    request,       \* the day's ScheduleRequest (associates, caps, flags)
    candidates,    \* dict associate id -> list of ShiftCandidate
    slot_states,   \* list of SlotState, one per slot of the day
    selected,      \* list of selected ShiftCandidate
    cursor,        \* index of the loop in progress
    block_state,   \* ShiftBlockState.counts: block type -> count
    start_state,   \* ShiftStartState.counts: start slot -> count
    assignment,    \* the ShiftAssignment under construction
    schedule,      \* DaySchedule.assignments: associate id -> ShiftAssignment
    errors,        \* ValidationResult.errors of the day's validation
    week_request,  \* the WeeklyScheduleRequest
    weekly_states, \* dict associate id -> AssociateWeeklyState
    date_i,        \* index of the date loop of the weekly coordinator
    day_schedules, \* WeeklySchedule.day_schedules: date -> assignments
    week_errors,   \* ValidationResult.errors of the week's validation
    demand_curve,  \* the DemandCurve of a day; in the demand-aware week the
                   \* WeeklyDemand
    coverage_timeline, \* list of on-floor counts, one per slot
    metrics,       \* the DemandMetrics calculate returns; in the demand-aware
                   \* week the dict date -> DemandMetrics
    solver_type,   \* DemandAwareConfig.solver_type
    config,        \* the SolverConfig of the CP solver; in the demand-aware
                   \* week the DemandAwareConfig
    cp_result,     \* the SolverResult of CPSATSolver.solve
    stats          \* the stats dict _solve_day returns; in the demand-aware
                   \* week the dict date -> stats

vars == <<pc, gen_in, gen_out, request, candidates, slot_states, selected,
          cursor, block_state, start_state, assignment, schedule, errors,
          week_request, weekly_states, date_i, day_schedules, week_errors,
          demand_curve, coverage_timeline, metrics, solver_type, config,
          cp_result, stats>>

-----------------------------------------------------------------------------
(* Domain constants.                                                       *)

slot_minutes == 15
day_start_minutes == 300
day_end_minutes == 1320
total_slots == (day_end_minutes - day_start_minutes) \div slot_minutes

JobRole == {"PICKING", "GMD_SM", "EXCEPTION_SM", "STAGING", "BACKROOM", "SR"}

AVOID == 0 - 1
NEUTRAL == 0
PREFER == 1

UNCAPPED == 999

None == "None"

\* None where the value is otherwise a record, and where it is an integer.
NoRecord == [none |-> TRUE]
NoInt == 0 - 1

Max(a, b) == IF a >= b THEN a ELSE b
Min(a, b) == IF a <= b THEN a ELSE b
Abs(a) == IF a < 0 THEN 0 - a ELSE a

-----------------------------------------------------------------------------
(* Policies (domain/policies.py).                                          *)

min_work_minutes == 240
max_work_minutes == 480

no_lunch_threshold == 360
short_lunch_threshold == 390
short_lunch_duration == 30
long_lunch_duration == 60
normal_day_window == 30
busy_day_window == 60

one_break_threshold == 300
two_break_threshold == 420
break_duration == 15
min_gap_from_lunch_slots == 2
max_break_variance_slots == 2

get_lunch_duration(work_minutes) ==
    IF work_minutes < no_lunch_threshold THEN 0
    ELSE IF work_minutes < short_lunch_threshold THEN short_lunch_duration
    ELSE long_lunch_duration

get_break_count(work_minutes) ==
    IF work_minutes >= two_break_threshold THEN 2
    ELSE IF work_minutes >= one_break_threshold THEN 1
    ELSE 0

-----------------------------------------------------------------------------
(* Candidate generator (scheduling/candidate_generator.py).                *)

ShiftCandidate(id, start, end, work, lunch, breaks) ==
    [associate_id |-> id, start_slot |-> start, end_slot |-> end,
     work_minutes |-> work, lunch_slots |-> lunch, break_count |-> breaks]

\* candidate_for without the daily hour limit.
candidate_for_no_daily_limit(associate, start_slot, work_slots, avail_end, day_slots) ==
    LET work_minutes == work_slots * slot_minutes
        lunch_slots == get_lunch_duration(work_minutes) \div slot_minutes
        end_slot == start_slot + work_slots + lunch_slots
    IN  IF end_slot > avail_end THEN <<>>
        ELSE IF end_slot > day_slots THEN <<>>
        ELSE <<ShiftCandidate(associate.id, start_slot, end_slot, work_minutes,
                              lunch_slots, get_break_count(work_minutes))>>

\* The body of the inner loop for one (start_slot, work_slots): the list of
\* zero or one candidate it appends.
candidate_for(associate, start_slot, work_slots, avail_end, day_slots) ==
    LET work_minutes == work_slots * slot_minutes
        lunch_slots == get_lunch_duration(work_minutes) \div slot_minutes
        end_slot == start_slot + work_slots + lunch_slots
    IN  IF work_minutes > associate.max_minutes_per_day THEN <<>>
        ELSE IF end_slot > avail_end THEN <<>>
        ELSE IF end_slot > day_slots THEN <<>>
        ELSE <<ShiftCandidate(associate.id, start_slot, end_slot, work_minutes,
                              lunch_slots, get_break_count(work_minutes))>>

RECURSIVE work_loop(_, _, _, _, _, _, _)
work_loop(associate, start_slot, work_slots, max_work_slots, step_slots, avail_end, day_slots) ==
    IF work_slots > max_work_slots THEN <<>>
    ELSE candidate_for(associate, start_slot, work_slots, avail_end, day_slots)
         \o work_loop(associate, start_slot, work_slots + step_slots,
                      max_work_slots, step_slots, avail_end, day_slots)

RECURSIVE start_loop(_, _, _, _, _, _, _)
start_loop(associate, start_slot, min_work_slots, max_work_slots, step_slots, avail_end, day_slots) ==
    IF start_slot >= avail_end THEN <<>>
    ELSE work_loop(associate, start_slot, min_work_slots, max_work_slots,
                   step_slots, avail_end, day_slots)
         \o start_loop(associate, start_slot + step_slots, min_work_slots,
                       max_work_slots, step_slots, avail_end, day_slots)

generate_candidates(associate, day_slots, step_slots) ==
    LET availability == associate.availability
        min_work_slots == min_work_minutes \div slot_minutes
        max_work_slots == max_work_minutes \div slot_minutes
        avail_start == Max(0, availability.start_slot)
        avail_end == Min(day_slots, availability.end_slot)
    IN  IF availability.is_off THEN <<>>
        ELSE IF avail_end - avail_start < min_work_slots THEN <<>>
        ELSE start_loop(associate, avail_start, min_work_slots, max_work_slots,
                        step_slots, avail_end, day_slots)

\* generate_all_candidates: the dict holds only associates with candidates;
\* here an associate without candidates maps to the empty list, which
\* select_shifts skips.
generate_all_candidates(req) ==
    [i \in 1..Len(req.associates) |->
        generate_candidates(req.associates[i], total_slots, req.step_slots)]

-----------------------------------------------------------------------------
(* Heuristic solver (scheduling/heuristic_solver.py).                      *)

SlotState == [on_floor_count |-> 0, on_lunch_count |-> 0, on_break_count |-> 0,
              lunch_start_count |-> 0, role_counts |-> [r \in JobRole |-> 0]]

Slots == 0..(total_slots - 1)

RECURSIVE SumF(_, _, _)
SumF(f, lo, hi) == IF lo >= hi THEN 0 ELSE f[lo] + SumF(f, lo + 1, hi)

\* A "best so far" loop over lo..hi, in which best is replaced only by an
\* element that is ok and scores strictly higher, keeps the first of the ok
\* elements of highest score.  ScanBest finds it by halving the range; 0 - 1
\* stands for no ok element.
RECURSIVE ScanBest(_, _, _, _)
ScanBest(okf, scf, lo, hi) ==
    IF lo > hi THEN NoInt
    ELSE IF lo = hi THEN (IF okf[lo] THEN lo ELSE NoInt)
    ELSE LET mid == (lo + hi) \div 2
             left == ScanBest(okf, scf, lo, mid)
             right == ScanBest(okf, scf, mid + 1, hi)
         IN  IF left = NoInt THEN right
             ELSE IF right = NoInt THEN left
             ELSE IF scf[right] > scf[left] THEN right ELSE left

FirstArgMax(lo, hi, ok(_), score(_), dflt) ==
    LET okf == [x \in lo..hi |-> ok(x)]
        scf == [x \in lo..hi |-> IF okf[x] THEN score(x) ELSE 0]
        best == ScanBest(okf, scf, lo, hi)
    IN  IF best = NoInt THEN dflt ELSE best

\* _score_shift, scaled by 100: 10.0/5.0/2.0/1.0 per slot, work_minutes/100.
slot_gain(ss) ==
    [s \in Slots |->
        IF ss[s].on_floor_count = 0 THEN 1000
        ELSE IF ss[s].on_floor_count < 3 THEN 500
        ELSE IF ss[s].on_floor_count < 5 THEN 200
        ELSE 100]

\* The running sums of f over the slots: PrefixSums(f, 0, <<0>>)[i + 1] is the
\* sum of f over the slots below i.
RECURSIVE PrefixSums(_, _, _)
PrefixSums(f, s, acc) ==
    IF Len(acc) > total_slots THEN acc
    ELSE PrefixSums(f, s + 1, Append(acc, acc[s + 1] + f[s]))

\* The sum over range(start_slot, end_slot) is read off the running sums.
score_shift(candidate, sums) ==
    sums[candidate.end_slot + 1] - sums[candidate.start_slot + 1]
    + candidate.work_minutes

\* block_by_slot.get(slot): the last configured block containing the slot.
block_by_slot(shift_block_configs, slot) ==
    LET K == {k \in 1..Len(shift_block_configs) :
                 shift_block_configs[k].start_slot <= slot
                 /\ slot < shift_block_configs[k].end_slot}
    IN  IF K = {} THEN NoRecord
        ELSE shift_block_configs[CHOOSE k \in K : \A j \in K : j <= k]

\* start_config_by_slot.get(slot): the last config with that start slot.
start_config_by_slot(shift_start_configs, slot) ==
    LET K == {k \in 1..Len(shift_start_configs) :
                 shift_start_configs[k].start_slot = slot}
    IN  IF K = {} THEN NoRecord
        ELSE shift_start_configs[CHOOSE k \in K : \A j \in K : j <= k]

get_count(counts, key) == IF key \in DOMAIN counts THEN counts[key] ELSE 0

increment(counts, key) ==
    [k \in DOMAIN counts \cup {key} |-> get_count(counts, k) + IF k = key THEN 1 ELSE 0]

\* The capacity checks of the candidate loop: TRUE when the candidate is skipped.
at_capacity(candidate, shift_block_configs, blocks, shift_start_configs, starts) ==
    \/ /\ shift_block_configs /= <<>>
       /\ LET block == block_by_slot(shift_block_configs, candidate.start_slot)
          IN  /\ block /= NoRecord
              /\ get_count(blocks, block.block_type) >= block.max_associates
    \/ /\ shift_start_configs /= <<>>
       /\ LET start_cfg == start_config_by_slot(shift_start_configs,
                                                candidate.start_slot)
          IN  /\ start_cfg /= NoRecord
              /\ get_count(starts, candidate.start_slot) >= start_cfg.max_count

\* The target bonuses, scaled by 100 (5.0 and 10.0 per missing associate).
target_bonus(candidate, shift_block_configs, blocks, shift_start_configs, starts) ==
    LET block == block_by_slot(shift_block_configs, candidate.start_slot)
        start_cfg == start_config_by_slot(shift_start_configs, candidate.start_slot)
        b == IF shift_block_configs /= <<>> /\ block /= NoRecord
                /\ block.target_associates /= NoInt
                /\ get_count(blocks, block.block_type) < block.target_associates
             THEN 500 * (block.target_associates - get_count(blocks, block.block_type))
             ELSE 0
        t == IF shift_start_configs /= <<>> /\ start_cfg /= NoRecord
                /\ get_count(starts, candidate.start_slot) < start_cfg.target_count
             THEN 1000 * (start_cfg.target_count - get_count(starts, candidate.start_slot))
             ELSE 0
    IN  b + t

\* The candidate loop of _select_shifts for one associate: the index of
\* best_candidate in assoc_candidates, 0 for None.
best_candidate(assoc_candidates, ss, shift_block_configs, blocks, shift_start_configs, starts) ==
    LET sums == PrefixSums(slot_gain(ss), 0, <<0>>)
        ok(k) == ~at_capacity(assoc_candidates[k], shift_block_configs, blocks,
                              shift_start_configs, starts)
        score(k) == score_shift(assoc_candidates[k], sums)
                    + target_bonus(assoc_candidates[k], shift_block_configs,
                                   blocks, shift_start_configs, starts)
    IN  FirstArgMax(1, Len(assoc_candidates), ok, score, 0)

\* sorted(candidates.keys(), key=len): a stable sort, so ties keep dict order.
sorted_associates(cands) ==
    LET n == Len(cands)
        before(i, j) == \/ Len(cands[i]) < Len(cands[j])
                        \/ Len(cands[i]) = Len(cands[j]) /\ i < j
    IN  [p \in 1..n |->
            CHOOSE i \in 1..n : Cardinality({j \in 1..n : before(j, i)}) = p - 1]

add_on_floor(ss, lo, hi, d) ==
    [s \in Slots |->
        IF lo <= s /\ s < hi
        THEN [ss[s] EXCEPT !.on_floor_count = @ + d]
        ELSE ss[s]]

ScheduleBlock(start, end) == [start_slot |-> start, end_slot |-> end]

contains_slot(block, slot) == block.start_slot <= slot /\ slot < block.end_slot

overlaps(a, b) == a.start_slot < b.end_slot /\ b.start_slot < a.end_slot

\* DefaultLunchPolicy.get_lunch_window: (earliest_start, latest_start).
get_lunch_window(shift_start_slot, shift_end_slot, lunch_slots, is_busy_day) ==
    IF lunch_slots = 0 THEN [earliest |-> 0, latest |-> 0]
    ELSE
    LET shift_length == shift_end_slot - shift_start_slot
        mid_point == shift_start_slot + shift_length \div 2
        target_start == mid_point - lunch_slots \div 2
        window_minutes == IF is_busy_day THEN busy_day_window ELSE normal_day_window
        window_slots == window_minutes \div slot_minutes
        earliest0 == Max(shift_start_slot + 4, target_start - window_slots)
        latest0 == Min(shift_end_slot - lunch_slots - 4, target_start + window_slots)
        earliest_start == Max(shift_start_slot, earliest0)
    IN  [earliest |-> earliest_start, latest |-> Max(earliest_start, latest0)]

early_cutoff_minutes == 480

lunch_target(candidate) ==
    LET shift_length == candidate.end_slot - candidate.start_slot
        mid_point == candidate.start_slot + shift_length \div 2
    IN  mid_point - candidate.lunch_slots \div 2

\* lunch_loop_start without the rule for shifts that begin before 8 AM.
lunch_loop_start_earliest(candidate, is_busy_day) ==
    get_lunch_window(candidate.start_slot, candidate.end_slot,
                     candidate.lunch_slots, is_busy_day).earliest

\* The first start the lunch search tries.
lunch_loop_start(candidate, is_busy_day) ==
    LET early_cutoff_slot == (early_cutoff_minutes - day_start_minutes) \div slot_minutes
        window == get_lunch_window(candidate.start_slot, candidate.end_slot,
                                   candidate.lunch_slots, is_busy_day)
    IN  IF candidate.start_slot < early_cutoff_slot
        THEN lunch_target(candidate) ELSE window.earliest

\* _place_lunch: the lunch block.  Scores are scaled by 2 (100.0, 1.0, 0.5).
place_lunch(candidate, ss, is_busy_day) ==
    LET lunch_slots == candidate.lunch_slots
        window == get_lunch_window(candidate.start_slot, candidate.end_slot,
                                   lunch_slots, is_busy_day)
        target == lunch_target(candidate)
        loop_start == lunch_loop_start(candidate, is_busy_day)
        on_lunch == [s \in Slots |-> ss[s].on_lunch_count]
        \* the loop breaks at the first start whose lunch would end after the shift
        ok(start) == start + lunch_slots <= candidate.end_slot
        score(start) == 0 - 200 * ss[start].lunch_start_count
                        - 2 * SumF(on_lunch, start, start + lunch_slots)
                        - Abs(start - target)
        best_start == FirstArgMax(loop_start, window.latest, ok, score, loop_start)
    IN  ScheduleBlock(best_start, best_start + lunch_slots)

\* A lunch update that leaves the on-floor counts as they are.
apply_lunch_keeps_floor(ss, lunch_block) ==
    [s \in Slots |->
        LET a == IF contains_slot(lunch_block, s)
                 THEN [ss[s] EXCEPT !.on_lunch_count = @ + 1]
                 ELSE ss[s]
        IN  IF s = lunch_block.start_slot
            THEN [a EXCEPT !.lunch_start_count = @ + 1] ELSE a]

\* The slot-state update of solve() after a lunch is placed.
apply_lunch(ss, lunch_block) ==
    [s \in Slots |->
        LET a == IF contains_slot(lunch_block, s)
                 THEN [ss[s] EXCEPT !.on_lunch_count = @ + 1,
                                    !.on_floor_count = @ - 1]
                 ELSE ss[s]
        IN  IF s = lunch_block.start_slot
            THEN [a EXCEPT !.lunch_start_count = @ + 1] ELSE a]

\* The bounds adjustment at the end of get_break_target_positions.
adjust_target(target, work_start_slot, work_end_slot, lunch_start_slot, lunch_end_slot, break_slots) ==
    LET moved == IF lunch_start_slot /= NoInt
                    /\ lunch_start_slot <= target /\ target < lunch_end_slot
                 THEN IF target - work_start_slot < work_end_slot - target
                      THEN lunch_start_slot - break_slots - min_gap_from_lunch_slots
                      ELSE lunch_end_slot + min_gap_from_lunch_slots
                 ELSE target
    IN  Min(work_end_slot - break_slots, Max(work_start_slot, moved))

\* DefaultBreakPolicy.get_break_target_positions.
get_break_target_positions(work_start_slot, work_end_slot, break_count, lunch_start_slot, lunch_end_slot) ==
    LET break_slots == break_duration \div slot_minutes
        work_length == work_end_slot - work_start_slot
        has_lunch == lunch_start_slot /= NoInt
        segment1_length == lunch_start_slot - work_start_slot
        segment2_length == work_end_slot - lunch_end_slot
        targets ==
            IF break_count = 1
            THEN IF has_lunch
                 THEN IF segment1_length >= segment2_length
                      THEN <<work_start_slot + segment1_length \div 2>>
                      ELSE <<lunch_end_slot + segment2_length \div 2>>
                 ELSE <<work_start_slot + work_length \div 2>>
            ELSE IF break_count = 2
            THEN IF has_lunch
                 THEN <<work_start_slot + segment1_length \div 2,
                        lunch_end_slot + segment2_length \div 2>>
                 ELSE <<work_start_slot + work_length \div 3,
                        work_start_slot + (2 * work_length) \div 3>>
            ELSE <<>>
    IN  IF break_count = 0 THEN <<>>
        ELSE [k \in 1..Len(targets) |->
                adjust_target(targets[k], work_start_slot, work_end_slot,
                              lunch_start_slot, lunch_end_slot, break_slots)]

\* _find_best_break_position.  Scores are scaled by 10 (0.1, 5.0, 2.0).
find_best_break_position(target, break_slots, shift_start, shift_end, used_slots, ss, search_radius) ==
    LET ok(start) == /\ start >= shift_start
                     /\ start + break_slots <= shift_end
                     /\ \A slot \in start..(start + break_slots - 1) :
                            slot \notin used_slots
        gain == [s \in Slots |-> ss[s].on_floor_count - 50 * ss[s].on_break_count]
        score(start) == SumF(gain, start, start + break_slots)
                        - 20 * Abs(start - target)
    IN  FirstArgMax(target - search_radius, target + search_radius, ok, score,
                    target)

RECURSIVE place_breaks_loop(_, _, _, _, _, _)
place_breaks_loop(targets, k, candidate, used_slots, ss, breaks) ==
    IF k > Len(targets) THEN breaks
    ELSE LET break_slots == break_duration \div slot_minutes
             best_start == find_best_break_position(targets[k], break_slots,
                               candidate.start_slot, candidate.end_slot,
                               used_slots, ss, max_break_variance_slots)
         IN  place_breaks_loop(targets, k + 1, candidate,
                 used_slots \cup (best_start..(best_start + break_slots - 1)),
                 ss, Append(breaks, ScheduleBlock(best_start, best_start + break_slots)))

\* place_breaks that counts the break slots from the end of the shift.
place_breaks_after_shift(candidate, lunch_block, ss) ==
    [k \in 1..candidate.break_count |->
        ScheduleBlock(candidate.end_slot + k - 1, candidate.end_slot + k)]

\* _place_breaks: the list of break blocks.
place_breaks(candidate, lunch_block, ss) ==
    LET lunch_start == IF lunch_block /= NoRecord THEN lunch_block.start_slot ELSE NoInt
        lunch_end == IF lunch_block /= NoRecord THEN lunch_block.end_slot ELSE NoInt
        targets == get_break_target_positions(candidate.start_slot,
                       candidate.end_slot, candidate.break_count,
                       lunch_start, lunch_end)
        used_slots == IF lunch_block /= NoRecord
                      THEN lunch_block.start_slot..(lunch_block.end_slot - 1)
                      ELSE {}
    IN  place_breaks_loop(targets, 1, candidate, used_slots, ss, <<>>)

\* The slot-state update of solve() after the breaks are placed.
RECURSIVE apply_breaks(_, _, _)
apply_breaks(ss, break_blocks, k) ==
    IF k > Len(break_blocks) THEN ss
    ELSE apply_breaks(
            [s \in Slots |->
                IF contains_slot(break_blocks[k], s)
                THEN [ss[s] EXCEPT !.on_break_count = @ + 1,
                                   !.on_floor_count = @ - 1]
                ELSE ss[s]],
            break_blocks, k + 1)

eligible_roles(associate) ==
    associate.supervisor_allowed_roles \ associate.cannot_do_roles

get_preference(associate, role) ==
    IF role \in DOMAIN associate.role_preferences
    THEN associate.role_preferences[role] ELSE NEUTRAL

\* off_blocks.sort(): tuples in ascending (start, end) order.
sort_blocks(blocks) ==
    LET n == Len(blocks)
        before(i, j) ==
            \/ blocks[i].start_slot < blocks[j].start_slot
            \/ /\ blocks[i].start_slot = blocks[j].start_slot
               /\ \/ blocks[i].end_slot < blocks[j].end_slot
                  \/ blocks[i].end_slot = blocks[j].end_slot /\ i < j
    IN  [p \in 1..n |->
            blocks[CHOOSE i \in 1..n :
                       Cardinality({j \in 1..n : before(j, i)}) = p - 1]]

RECURSIVE work_periods_loop(_, _, _, _, _)
work_periods_loop(off_blocks, k, current_start, end_slot, periods) ==
    IF k > Len(off_blocks)
    THEN IF current_start < end_slot
         THEN Append(periods, ScheduleBlock(current_start, end_slot))
         ELSE periods
    ELSE work_periods_loop(off_blocks, k + 1, off_blocks[k].end_slot, end_slot,
            IF current_start < off_blocks[k].start_slot
            THEN Append(periods, ScheduleBlock(current_start, off_blocks[k].start_slot))
            ELSE periods)

\* _get_work_periods: the contiguous work periods between lunch and breaks.
get_work_periods(candidate, asg) ==
    LET off_blocks == (IF asg.lunch_block /= NoRecord THEN <<asg.lunch_block>> ELSE <<>>)
                      \o asg.break_blocks
    IN  work_periods_loop(sort_blocks(off_blocks), 1, candidate.start_slot,
                          candidate.end_slot, <<>>)

\* SlotRangeCaps.get_cap of the first range that contains the slot.
range_cap(slot_range_caps, slot, role) ==
    LET K == {k \in 1..Len(slot_range_caps) :
                 contains_slot(slot_range_caps[k], slot)}
        caps == slot_range_caps[CHOOSE k \in K : \A j \in K : k <= j].caps
    IN  IF role \in DOMAIN caps THEN caps[role] ELSE 0

\* _get_cap_for_slot.
get_cap_for_slot(slot, role, job_caps, slot_range_caps) ==
    IF \E k \in 1..Len(slot_range_caps) : contains_slot(slot_range_caps[k], slot)
    THEN range_cap(slot_range_caps, slot, role)
    ELSE IF role \in DOMAIN job_caps THEN job_caps[role] ELSE UNCAPPED

\* The "under cap for all slots" loop shared by role selection and preservation.
can_assign(role, period, ss, job_caps, slot_range_caps) ==
    \A slot \in period.start_slot..(period.end_slot - 1) :
        ss[slot].role_counts[role] < get_cap_for_slot(slot, role, job_caps, slot_range_caps)

\* A role assignment without persistence: every interval is selected afresh.
try_preserve_role_never(role, period, eligible, ss, job_caps, slot_range_caps) ==
    None

\* _try_preserve_role.
try_preserve_role(role, period, eligible, ss, job_caps, slot_range_caps) ==
    IF role \notin eligible THEN None
    ELSE IF can_assign(role, period, ss, job_caps, slot_range_caps) THEN role
    ELSE None

constrained_priority == <<"GMD_SM", "EXCEPTION_SM", "STAGING", "BACKROOM", "SR">>

persistent_roles == {"GMD_SM", "EXCEPTION_SM", "SR", "BACKROOM"}

\* The first element of the role list that satisfies ok, None when none does.
first_role(roles, ok(_)) ==
    LET K == {k \in 1..Len(roles) : ok(roles[k])}
    IN  IF K = {} THEN None ELSE roles[CHOOSE k \in K : \A j \in K : k <= j]

\* _select_role_for_period.  iteration is the order in which the interpreter
\* iterates the eligible_roles set in the last-resort loop.
select_role_for_period(period, eligible, associate, ss, job_caps, slot_range_caps, iteration) ==
    LET fits(role) == role \in eligible
                      /\ can_assign(role, period, ss, job_caps, slot_range_caps)
        constrained == first_role(constrained_priority,
                           LAMBDA role : fits(role)
                                         /\ get_preference(associate, role) /= AVOID)
    IN  IF constrained /= None THEN constrained
        ELSE IF "PICKING" \in eligible THEN "PICKING"
        ELSE first_role(iteration, fits)

add_role(ss, period, role) ==
    [s \in Slots |->
        IF contains_slot(period, s)
        THEN [ss[s] EXCEPT !.role_counts[role] = @ + 1]
        ELSE ss[s]]

opening_hour_slots == 4

\* The period loop of _assign_roles; acc = [jobs, ss, initial_role].
RECURSIVE assign_roles_loop(_, _, _, _, _, _, _)
assign_roles_loop(periods, k, candidate, associate, req, iteration, acc) ==
    IF k > Len(periods) THEN acc
    ELSE
    LET period == periods[k]
        eligible == eligible_roles(associate)
        is_5am_starter == candidate.start_slot < opening_hour_slots
        should_persist == acc.initial_role /= None
                          /\ (is_5am_starter \/ acc.initial_role \in persistent_roles)
        preserved == IF should_persist
                     THEN try_preserve_role(acc.initial_role, period, eligible,
                              acc.ss, req.job_caps, req.slot_range_caps)
                     ELSE None
        role == IF preserved /= None THEN preserved
                ELSE select_role_for_period(period, eligible, associate, acc.ss,
                         req.job_caps, req.slot_range_caps, iteration)
    IN  assign_roles_loop(periods, k + 1, candidate, associate, req, iteration,
            IF role /= None
            THEN [jobs |-> Append(acc.jobs, [role |-> role, block |-> period]),
                  ss |-> add_role(acc.ss, period, role),
                  initial_role |-> IF acc.initial_role = None THEN role
                                   ELSE acc.initial_role]
            ELSE acc)

\* _assign_roles: [jobs |-> the job assignments, ss |-> the slot states after].
assign_roles(candidate, asg, associate, ss, req, iteration) ==
    IF eligible_roles(associate) = {}
    THEN [jobs |-> <<>>, ss |-> ss, initial_role |-> None]
    ELSE assign_roles_loop(get_work_periods(candidate, asg), 1, candidate,
             associate, req, iteration,
             [jobs |-> <<>>, ss |-> ss, initial_role |-> None])

\* selected_shifts.sort(key=start_slot): stable.
sort_by_start(sel) ==
    LET n == Len(sel)
        before(i, j) == \/ sel[i].start_slot < sel[j].start_slot
                        \/ sel[i].start_slot = sel[j].start_slot /\ i < j
    IN  [p \in 1..n |->
            sel[CHOOSE i \in 1..n :
                    Cardinality({j \in 1..n : before(j, i)}) = p - 1]]

-----------------------------------------------------------------------------
(* Schedule views (domain/models.py).                                      *)

ShiftAssignment(candidate) ==
    [associate_id |-> candidate.associate_id,
     shift_start_slot |-> candidate.start_slot,
     shift_end_slot |-> candidate.end_slot,
     lunch_block |-> NoRecord, break_blocks |-> <<>>, job_assignments |-> <<>>]

duration_minutes(block) == (block.end_slot - block.start_slot) * slot_minutes

lunch_minutes(asg) ==
    IF asg.lunch_block = NoRecord THEN 0 ELSE duration_minutes(asg.lunch_block)

work_minutes_of(asg) ==
    (asg.shift_end_slot - asg.shift_start_slot) * slot_minutes - lunch_minutes(asg)

is_on_floor(asg, slot) ==
    /\ asg.shift_start_slot <= slot /\ slot < asg.shift_end_slot
    /\ ~(asg.lunch_block /= NoRecord /\ contains_slot(asg.lunch_block, slot))
    /\ \A k \in 1..Len(asg.break_blocks) : ~contains_slot(asg.break_blocks[k], slot)

\* get_role_at_slot: the role of the first job assignment containing the slot.
get_role_at_slot(asg, slot) ==
    LET K == {k \in 1..Len(asg.job_assignments) :
                 contains_slot(asg.job_assignments[k].block, slot)}
    IN  IF K = {} THEN None
        ELSE asg.job_assignments[CHOOSE k \in K : \A j \in K : k <= j].role

get_coverage_at_slot(sched, slot) ==
    Cardinality({a \in DOMAIN sched : is_on_floor(sched[a], slot)})

get_role_coverage_at_slot(sched, slot, role) ==
    Cardinality({a \in DOMAIN sched :
                    is_on_floor(sched[a], slot)
                    /\ get_role_at_slot(sched[a], slot) = role})

-----------------------------------------------------------------------------
(* HeuristicSolver.solve, step by step.                                    *)

\* The state _select_shifts works on before the first associate.
SelectState ==
    [selected |-> <<>>, ss |-> [s \in Slots |-> SlotState],
     blocks |-> <<>>, starts |-> <<>>]

\* One iteration of the associate loop of _select_shifts.
select_one(st, assoc_candidates, req) ==
    LET k == best_candidate(assoc_candidates, st.ss, req.shift_block_configs,
                            st.blocks, req.shift_start_configs, st.starts)
    IN  IF k = 0 THEN st
        ELSE LET best == assoc_candidates[k]
                 block == block_by_slot(req.shift_block_configs, best.start_slot)
             IN  [selected |-> Append(st.selected, best),
                  ss |-> add_on_floor(st.ss, best.start_slot, best.end_slot, 1),
                  blocks |-> IF req.shift_block_configs /= <<>> /\ block /= NoRecord
                             THEN increment(st.blocks, block.block_type)
                             ELSE st.blocks,
                  starts |-> IF req.shift_start_configs /= <<>>
                             THEN increment(st.starts, best.start_slot)
                             ELSE st.starts]

\* _select_shifts: candidates is the list of candidate lists in dict order.
RECURSIVE select_shifts_loop(_, _, _, _, _)
select_shifts_loop(cands, order, k, req, st) ==
    IF k > Len(order) THEN st
    ELSE select_shifts_loop(cands, order, k + 1, req,
                            select_one(st, cands[order[k]], req))

select_shifts(cands, req) ==
    select_shifts_loop(cands, sorted_associates(cands), 1, req, SelectState)

\* solve(): the base assignment of a selected shift and its lunch.
lunch_step(candidate, ss, req) ==
    IF candidate.lunch_slots > 0
    THEN LET lunch_block == place_lunch(candidate, ss, req.is_busy_day)
         IN  [asg |-> [ShiftAssignment(candidate) EXCEPT !.lunch_block = lunch_block],
              ss |-> apply_lunch(ss, lunch_block)]
    ELSE [asg |-> ShiftAssignment(candidate), ss |-> ss]

\* solve(): the breaks of the shift.
breaks_step(candidate, asg, ss) ==
    IF candidate.break_count > 0
    THEN LET break_blocks == place_breaks(candidate, asg.lunch_block, ss)
         IN  [asg |-> [asg EXCEPT !.break_blocks = break_blocks],
              ss |-> apply_breaks(ss, break_blocks, 1)]
    ELSE [asg |-> asg, ss |-> ss]

\* solve(): the roles of the shift.
roles_step(candidate, asg, associate, ss, req, iteration) ==
    LET result == assign_roles(candidate, asg, associate, ss, req, iteration)
    IN  [asg |-> [asg EXCEPT !.job_assignments = result.jobs], ss |-> result.ss]

\* schedule.assignments[associate_id] = assignment
put(sched, id, asg) ==
    [a \in DOMAIN sched \cup {id} |-> IF a = id THEN asg ELSE sched[a]]

\* The loop of solve() over the selected shifts.
RECURSIVE solve_loop(_, _, _, _, _, _, _)
solve_loop(sel, k, associates_map, req, iteration, ss, sched) ==
    IF k > Len(sel) THEN sched
    ELSE LET candidate == sel[k]
             l == lunch_step(candidate, ss, req)
             b == breaks_step(candidate, l.asg, l.ss)
             r == roles_step(candidate, b.asg, associates_map[candidate.associate_id],
                             b.ss, req, iteration)
         IN  solve_loop(sel, k + 1, associates_map, req, iteration, r.ss,
                        put(sched, candidate.associate_id, r.asg))

\* HeuristicSolver.solve: DaySchedule.assignments.
solve(req, cands, associates_map, iteration) ==
    LET st == select_shifts(cands, req)
    IN  solve_loop(sort_by_start(st.selected), 1, associates_map, req, iteration,
                   st.ss, <<>>)

-----------------------------------------------------------------------------
(* Validator (validation/validator.py).                                    *)

Error(type, id, role, slot) ==
    [error_type |-> type, associate_id |-> id, role |-> role, slot |-> slot]

\* _validate_job_coverage.
validate_job_coverage(asg) ==
    {Error("NO_JOB_ASSIGNMENT", asg.associate_id, None, slot) :
        slot \in {t \in asg.shift_start_slot..(asg.shift_end_slot - 1) :
                     is_on_floor(asg, t) /\ get_role_at_slot(asg, t) = None}}

\* _validate_assignment: the errors it adds.
validate_assignment(asg, associate, day_slots) ==
    LET id == asg.associate_id
        availability == associate.availability
        work_minutes == work_minutes_of(asg)
        breaks == asg.break_blocks
        E(cond, type) == IF cond THEN {Error(type, id, None, NoInt)} ELSE {}
    IN  E(asg.shift_start_slot < 0, "SHIFT_OUTSIDE_DAY")
        \cup E(asg.shift_end_slot > day_slots, "SHIFT_OUTSIDE_DAY")
        \cup E(availability.is_off, "SHIFT_OUTSIDE_AVAILABILITY")
        \cup E(~availability.is_off
               /\ asg.shift_start_slot < availability.start_slot,
               "SHIFT_OUTSIDE_AVAILABILITY")
        \cup E(~availability.is_off
               /\ asg.shift_end_slot > availability.end_slot,
               "SHIFT_OUTSIDE_AVAILABILITY")
        \cup E(work_minutes < min_work_minutes, "WORK_TIME_TOO_SHORT")
        \cup E(work_minutes > max_work_minutes, "WORK_TIME_TOO_LONG")
        \cup E(lunch_minutes(asg) /= get_lunch_duration(work_minutes),
               "INVALID_LUNCH_DURATION")
        \cup E(asg.lunch_block /= NoRecord
               /\ asg.lunch_block.start_slot < asg.shift_start_slot,
               "LUNCH_OUTSIDE_SHIFT")
        \cup E(asg.lunch_block /= NoRecord
               /\ asg.lunch_block.end_slot > asg.shift_end_slot,
               "LUNCH_OUTSIDE_SHIFT")
        \cup E(Len(breaks) /= get_break_count(work_minutes), "INVALID_BREAK_COUNT")
        \cup E(\E k \in 1..Len(breaks) : duration_minutes(breaks[k]) /= break_duration,
               "INVALID_BREAK_DURATION")
        \cup E(\E k \in 1..Len(breaks) :
                   \/ breaks[k].start_slot < asg.shift_start_slot
                   \/ breaks[k].end_slot > asg.shift_end_slot,
               "BREAK_OUTSIDE_SHIFT")
        \cup E(asg.lunch_block /= NoRecord
               /\ \E k \in 1..Len(breaks) : overlaps(breaks[k], asg.lunch_block),
               "BREAK_OVERLAPS_LUNCH")
        \cup E(\E i \in 1..Len(breaks) : \E j \in (i + 1)..Len(breaks) :
                   overlaps(breaks[i], breaks[j]),
               "BREAKS_OVERLAP")
        \cup E(\E k \in 1..Len(asg.job_assignments) :
                   asg.job_assignments[k].role \notin associate.supervisor_allowed_roles,
               "ROLE_NOT_ALLOWED_BY_SUPERVISOR")
        \cup E(\E k \in 1..Len(asg.job_assignments) :
                   asg.job_assignments[k].role \in associate.cannot_do_roles,
               "ROLE_CANNOT_DO")
        \cup E(work_minutes > associate.max_minutes_per_day, "MAX_DAILY_HOURS_EXCEEDED")
        \cup validate_job_coverage(asg)

\* _validate_role_caps: the cap is request.job_caps.get(role, 999).
validate_role_caps(sched, job_caps) ==
    {Error("ROLE_CAP_EXCEEDED", NoInt, role, slot) :
        <<slot, role>> \in
            {p \in Slots \X JobRole :
                get_role_coverage_at_slot(sched, p[1], p[2])
                    > (IF p[2] \in DOMAIN job_caps THEN job_caps[p[2]] ELSE UNCAPPED)}}

\* ScheduleValidator.validate: the set of errors of the result.
validate(sched, req) ==
    UNION {validate_assignment(sched[a], req.associates[a], total_slots) :
              a \in DOMAIN sched}
    \cup validate_role_caps(sched, req.job_caps)

-----------------------------------------------------------------------------
(* Weekly coordinator (scheduling/weekly_scheduler.py).  A date is its      *)
(* proleptic ordinal, so the difference of two dates in days is their       *)
(* difference, and date.weekday() is (ordinal + 6) % 7.                     *)

weekday(d) == (d + 6) % 7

\* The first weekday() value of the weekend (Saturday).
weekend_start == 5

off_day == [start_slot |-> 0, end_slot |-> 0, is_off |-> TRUE]

\* Associate.get_availability
get_availability(associate, schedule_date) ==
    IF schedule_date \in DOMAIN associate.availability
    THEN associate.availability[schedule_date] ELSE off_day

slot_count(availability) ==
    IF availability.is_off THEN 0
    ELSE availability.end_slot - availability.start_slot

\* A date range that stops before end_date.
schedule_dates_before_end(req) ==
    [k \in 1..(req.end_date - req.start_date) |-> req.start_date + k - 1]

\* WeeklyScheduleRequest.schedule_dates: start_date..end_date inclusive.
schedule_dates(req) ==
    [k \in 1..(req.end_date - req.start_date + 1) |-> req.start_date + k - 1]

Contains(seq, x) == \E k \in 1..Len(seq) : seq[k] = x

AssociateWeeklyState(associate) ==
    [minutes_scheduled |-> 0, days_worked |-> <<>>, days_off |-> <<>>,
     max_weekly_minutes |-> associate.max_minutes_per_week]

remaining_minutes(state) ==
    Max(0, state.max_weekly_minutes - state.minutes_scheduled)

add_shift(state, schedule_date, work_minutes) ==
    [state EXCEPT !.minutes_scheduled = @ + work_minutes,
                  !.days_worked = IF Contains(@, schedule_date) THEN @
                                  ELSE Append(@, schedule_date)]

add_day_off(state, schedule_date) ==
    [state EXCEPT !.days_off = IF Contains(@, schedule_date) THEN @
                               ELSE Append(@, schedule_date)]

\* _init_weekly_states
init_weekly_states(associates) ==
    [a \in 1..Len(associates) |-> AssociateWeeklyState(associates[a])]

\* Two of the dates are one day apart: adjacent in the sorted list.
has_adjacent_dates(dates) ==
    \E i, j \in 1..Len(dates) : dates[j] - dates[i] = 1

is_adjacent_to(schedule_date, dates) ==
    \E k \in 1..Len(dates) : Abs(schedule_date - dates[k]) = 1

\* check_two_consecutive that only plans the last two dates.
check_two_consecutive_last_dates_only(state, schedule_date, remaining_dates, all_dates) ==
    Len(state.days_off) = 0 /\ Len(remaining_dates) <= 2

\* _check_two_consecutive
check_two_consecutive(state, schedule_date, remaining_dates, all_dates) ==
    LET days_off == state.days_off
        days_off_count == Len(days_off)
    IN  IF days_off_count >= 2 /\ has_adjacent_dates(days_off) THEN FALSE
        ELSE IF days_off_count >= 2 /\ is_adjacent_to(schedule_date, days_off)
        THEN TRUE
        ELSE IF days_off_count = 1 /\ Abs(schedule_date - days_off[1]) = 1
        THEN TRUE
        ELSE days_off_count = 0 /\ Len(remaining_dates) <= 2

\* check_weekend_day that never forces a date off.
check_weekend_day_never(state, schedule_date, remaining_dates, all_dates) == FALSE

\* _check_weekend_day
check_weekend_day(state, schedule_date, remaining_dates, all_dates) ==
    LET has_weekend_off ==
            \E k \in 1..Len(state.days_off) :
                weekday(state.days_off[k]) >= weekend_start
        remaining_weekends ==
            {k \in 1..Len(remaining_dates) :
                weekday(remaining_dates[k]) >= weekend_start}
    IN  IF has_weekend_off THEN FALSE
        ELSE /\ weekday(schedule_date) >= weekend_start
             /\ Cardinality(remaining_weekends) = 1

\* check_every_other that looks at the days off instead of the days worked.
check_every_other_days_off(state, schedule_date, remaining_dates, all_dates) ==
    Contains(state.days_off, schedule_date - 1)

\* _check_every_other
check_every_other(state, schedule_date, remaining_dates, all_dates) ==
    Contains(state.days_worked, schedule_date - 1)

\* DaysOffPatternEnforcer.should_be_day_off
should_be_day_off(pattern, required_days_off, state, schedule_date, remaining_dates, all_dates) ==
    LET days_off_needed == required_days_off - Len(state.days_off)
    IN  IF pattern = "NONE" THEN FALSE
        ELSE IF days_off_needed > 0 /\ Len(remaining_dates) <= days_off_needed
        THEN TRUE
        ELSE IF pattern = "TWO_CONSECUTIVE"
        THEN check_two_consecutive(state, schedule_date, remaining_dates, all_dates)
        ELSE IF pattern = "ONE_WEEKEND_DAY"
        THEN check_weekend_day(state, schedule_date, remaining_dates, all_dates)
        ELSE IF pattern = "EVERY_OTHER_DAY"
        THEN check_every_other(state, schedule_date, remaining_dates, all_dates)
        ELSE FALSE

RECURSIVE SumSeq(_, _)
SumSeq(seq, k) == IF k > Len(seq) THEN 0 ELSE seq[k] + SumSeq(seq, k + 1)

all_minutes(all_states) ==
    [a \in 1..Len(all_states) |-> all_states[a].minutes_scheduled]

\* A balancer that looks only at how far the worker with the fewest minutes
\* is behind the average.
should_skip_associate_any_spread(state, all_states, remaining_days, max_hours_variance) ==
    LET n == Len(all_states)
        total == SumSeq(all_minutes(all_states), 1)
        min_minutes == CHOOSE m \in {all_states[a].minutes_scheduled : a \in 1..n} :
                           \A a \in 1..n : m <= all_states[a].minutes_scheduled
    IN  IF n = 0 \/ remaining_days <= 0 THEN FALSE
        ELSE 2 * (total - n * min_minutes) > n * max_hours_variance

\* FairnessBalancer.should_skip_associate.  avg_minutes is sum / n; both
\* comparisons are multiplied through by n (and by 2) to stay in integers.
should_skip_associate(state, all_states, remaining_days, max_hours_variance) ==
    LET n == Len(all_states)
        total == SumSeq(all_minutes(all_states), 1)
        min_minutes == CHOOSE m \in {all_states[a].minutes_scheduled : a \in 1..n} :
                           \A a \in 1..n : m <= all_states[a].minutes_scheduled
    IN  IF n = 0 \/ remaining_days <= 0 THEN FALSE
        ELSE /\ n * state.minutes_scheduled > total + n * max_hours_variance
             /\ 2 * (total - n * min_minutes) > n * max_hours_variance

\* The associate loop of _get_working_associates; acc = [working, states].
RECURSIVE working_loop(_, _, _, _, _, _, _)
working_loop(associates, k, schedule_date, remaining_dates, all_dates, req, acc) ==
    IF k > Len(associates) THEN acc
    ELSE
    LET associate == associates[k]
        state == acc.states[associate.id]
        availability == get_availability(associate, schedule_date)
        day_off == [acc EXCEPT !.states[associate.id] = add_day_off(@, schedule_date)]
        next ==
            IF availability.is_off \/ slot_count(availability) = 0 THEN day_off
            ELSE IF remaining_minutes(state) < min_work_minutes THEN day_off
            ELSE IF should_be_day_off(req.days_off_pattern, req.required_days_off,
                                      state, schedule_date, remaining_dates, all_dates)
            THEN day_off
            ELSE IF should_skip_associate(state, acc.states, Len(remaining_dates),
                                          req.max_hours_variance)
            THEN acc
            ELSE [acc EXCEPT !.working = Append(@, associate)]
    IN  working_loop(associates, k + 1, schedule_date, remaining_dates, all_dates,
                     req, next)

\* get_working_associates that records a day off for everybody it leaves out.
get_working_associates_all_days_off(associates, schedule_date, states_by_id, remaining_dates, all_dates, req) ==
    LET w == working_loop(associates, 1, schedule_date, remaining_dates, all_dates,
                          req, [working |-> <<>>, states |-> states_by_id])
    IN  [working |-> w.working,
         states |-> [a \in DOMAIN w.states |->
                        IF \E k \in 1..Len(w.working) : w.working[k].id = a
                        THEN w.states[a]
                        ELSE add_day_off(w.states[a], schedule_date)]]

\* _get_working_associates: [working |-> the list, states |-> states_by_id after].
get_working_associates(associates, schedule_date, states_by_id, remaining_dates, all_dates, req) ==
    working_loop(associates, 1, schedule_date, remaining_dates, all_dates, req,
                 [working |-> <<>>, states |-> states_by_id])


\* The associate as the day's request sees it: get_availability(schedule_date)
\* is what the generator and the validator read.
on_date(associate, schedule_date) ==
    [associate EXCEPT !.availability = get_availability(associate, schedule_date)]

\* The elements of seq that satisfy the test, in order.
RECURSIVE Filter(_, _, _)
Filter(seq, Test(_), k) ==
    IF k > Len(seq) THEN <<>>
    ELSE (IF Test(seq[k]) THEN <<seq[k]>> ELSE <<>>) \o Filter(seq, Test, k + 1)

\* adjusted_daily_max without the cap at the remaining weekly minutes.
adjusted_daily_max_uncapped(associate, state) ==
    associate.max_minutes_per_day

adjusted_daily_max(associate, state) ==
    Min(associate.max_minutes_per_day, remaining_minutes(state))

\* _adjust_associates_for_weekly_limits
adjust_associates_for_weekly_limits(associates, schedule_date, states_by_id) ==
    LET possible(associate) ==
            adjusted_daily_max(associate, states_by_id[associate.id])
                >= min_work_minutes
        kept == Filter(associates, possible, 1)
    IN  [k \in 1..Len(kept) |->
            [kept[k] EXCEPT !.max_minutes_per_day =
                adjusted_daily_max(kept[k], states_by_id[kept[k].id])]]

\* list.sort(key = sign * work_minutes): stable, ascending in the key; the
\* candidates of each key in turn, in their order in the list.
RECURSIVE sort_keys_loop(_, _, _)
sort_keys_loop(assoc_candidates, sign, keys) ==
    IF keys = {} THEN <<>>
    ELSE LET least == CHOOSE m \in keys : \A x \in keys : m <= x
         IN  SelectSeq(assoc_candidates,
                       LAMBDA c : sign * c.work_minutes = least)
                 \o sort_keys_loop(assoc_candidates, sign, keys \ {least})

sort_by_work_minutes(assoc_candidates, sign) ==
    sort_keys_loop(assoc_candidates, sign,
                   {sign * assoc_candidates[i].work_minutes :
                       i \in 1..Len(assoc_candidates)})

\* _generate_fairness_aware_candidates.  avg_minutes is sum / n and the
\* comparisons are multiplied through by n (and by 10 for the factor 1.1).
generate_fairness_aware_candidates(req, states_by_id) ==
    LET base == generate_all_candidates(req)
        n == Len(states_by_id)
        total == SumSeq(all_minutes(states_by_id), 1)
    IN  [p \in 1..Len(base) |->
            LET minutes == states_by_id[req.associates[p].id].minutes_scheduled
            IN  IF n * minutes < total
                THEN sort_by_work_minutes(base[p], 0 - 1)
                ELSE IF 10 * n * minutes > 11 * total
                THEN sort_by_work_minutes(base[p], 1)
                ELSE base[p]]

\* An update step that records days off and no shift.
update_weekly_states_without_shifts(day_schedule, schedule_date, states_by_id, working_associates) ==
    LET working_ids == {working_associates[k].id : k \in 1..Len(working_associates)}
    IN  [a \in 1..Len(states_by_id) |->
            IF a \in working_ids
            THEN add_day_off(states_by_id[a], schedule_date)
            ELSE states_by_id[a]]

\* The two loops of _update_weekly_states.
update_weekly_states(day_schedule, schedule_date, states_by_id, working_associates) ==
    LET working_ids == {working_associates[k].id : k \in 1..Len(working_associates)}
    IN  [a \in 1..Len(states_by_id) |->
            IF a \in DOMAIN day_schedule
            THEN add_shift(states_by_id[a], schedule_date,
                           work_minutes_of(day_schedule[a]))
            ELSE IF a \in working_ids
            THEN add_day_off(states_by_id[a], schedule_date)
            ELSE states_by_id[a]]

\* The ScheduleRequest generate_schedule builds for one date.
day_request(req, schedule_date, associates) ==
    [associates |-> [k \in 1..Len(associates) |-> on_date(associates[k], schedule_date)],
     job_caps |-> req.job_caps, slot_range_caps |-> <<>>,
     time_based_job_caps |-> <<>>,
     is_busy_day |-> schedule_date \in req.busy_days,
     step_slots |-> req.step_slots,
     shift_block_configs |-> req.shift_block_configs,
     shift_start_configs |-> req.shift_start_configs]

-----------------------------------------------------------------------------
(* WeeklySchedule (domain/models.py) and the weekly validator               *)
(* (validation/validator.py).  day_schedules maps a date to the             *)
(* assignments of its DaySchedule.                                          *)

\* WeeklySchedule.get_associate_weekly_minutes
get_associate_weekly_minutes(schedules, associate_id) ==
    LET dates == DOMAIN schedules
        minutes(d) == IF associate_id \in DOMAIN schedules[d]
                      THEN work_minutes_of(schedules[d][associate_id]) ELSE 0
        sum[S \in SUBSET dates] ==
            IF S = {} THEN 0
            ELSE LET d == CHOOSE x \in S : TRUE IN minutes(d) + sum[S \ {d}]
    IN  sum[dates]

\* WeeklySchedule.get_associate_days_worked
get_associate_days_worked(schedules, associate_id) ==
    Cardinality({d \in DOMAIN schedules : associate_id \in DOMAIN schedules[d]})

\* WeeklySchedule.get_associate_days_off
get_associate_days_off(schedules, dates, associate_id) ==
    LET off(d) == IF d \in DOMAIN schedules
                  THEN associate_id \notin DOMAIN schedules[d] ELSE TRUE
    IN  Filter(dates, off, 1)

\* An error of the weekly result; a daily error carries its date.
WeekError(type, id, role, slot, schedule_date) ==
    [error_type |-> type, associate_id |-> id, role |-> role, slot |-> slot,
     date |-> schedule_date]

\* _has_consecutive_days_off: the dates are in ascending order already.
RECURSIVE consecutive_loop(_, _, _, _)
consecutive_loop(sorted_days, i, consecutive, required_consecutive) ==
    IF i > Len(sorted_days) THEN FALSE
    ELSE IF sorted_days[i] - sorted_days[i - 1] = 1
    THEN \/ consecutive + 1 >= required_consecutive
         \/ consecutive_loop(sorted_days, i + 1, consecutive + 1,
                             required_consecutive)
    ELSE consecutive_loop(sorted_days, i + 1, 1, required_consecutive)

has_consecutive_days_off(days_off, required_consecutive) ==
    IF Len(days_off) < required_consecutive THEN FALSE
    ELSE consecutive_loop(days_off, 2, 1, required_consecutive)

\* _has_consecutive_days
has_consecutive_days(days) ==
    IF Len(days) < 2 THEN FALSE
    ELSE \E i \in 2..Len(days) : days[i] - days[i - 1] = 1

\* _validate_weekly_hour_limits
validate_weekly_hour_limits(schedules, associates) ==
    {WeekError("MAX_WEEKLY_HOURS_EXCEEDED", a, None, NoInt, NoInt) :
        a \in {x \in 1..Len(associates) :
                  get_associate_weekly_minutes(schedules, x)
                      > associates[x].max_minutes_per_week}}

\* _validate_days_off
validate_days_off(schedules, req) ==
    LET total_days == req.end_date - req.start_date + 1
    IN  {WeekError("INSUFFICIENT_DAYS_OFF", a, None, NoInt, NoInt) :
            a \in {x \in 1..Len(req.associates) :
                      total_days - get_associate_days_worked(schedules, x)
                          < req.required_days_off}}

\* _validate_days_off_pattern
validate_days_off_pattern(schedules, req) ==
    LET pattern == req.days_off_pattern
        dates == schedule_dates(req)
        days_off(a) == get_associate_days_off(schedules, dates, a)
        days_worked(a) ==
            Filter(dates, LAMBDA d : ~Contains(days_off(a), d), 1)
        violates(a) ==
            IF pattern = "TWO_CONSECUTIVE"
            THEN ~has_consecutive_days_off(days_off(a), 2)
            ELSE IF pattern = "ONE_WEEKEND_DAY"
            THEN ~\E k \in 1..Len(days_off(a)) :
                     weekday(days_off(a)[k]) >= weekend_start
            ELSE IF pattern = "EVERY_OTHER_DAY"
            THEN has_consecutive_days(days_worked(a))
            ELSE FALSE
        type == IF pattern = "EVERY_OTHER_DAY"
                THEN "CONSECUTIVE_WORK_DAYS_EXCEEDED"
                ELSE "DAYS_OFF_PATTERN_VIOLATED"
    IN  IF pattern = "NONE" THEN {}
        ELSE {WeekError(type, a, None, NoInt, NoInt) :
                 a \in {x \in 1..Len(req.associates) : violates(x)}}

\* validate_weekly_schedule: the set of errors of the result.  The minimum
\* weekly hours and the fairness checks add warnings only.
validate_weekly_schedule(schedules, req) ==
    UNION {{WeekError(e.error_type, e.associate_id, e.role, e.slot, d) :
               e \in validate(schedules[d], day_request(req, d, req.associates))} :
              d \in DOMAIN schedules}
    \cup validate_weekly_hour_limits(schedules, req.associates)
    \cup validate_days_off(schedules, req)
    \cup validate_days_off_pattern(schedules, req)

-----------------------------------------------------------------------------
(* The candidate generator called on one worker: SpecGen.                  *)

MaxStepSlots == 4

Preferences == {AVOID, NEUTRAL, PREFER}

Associate(id, availability, max_day, allowed, cannot_do, prefs) ==
    [id |-> id, availability |-> availability, max_minutes_per_day |-> max_day,
     supervisor_allowed_roles |-> allowed, cannot_do_roles |-> cannot_do,
     role_preferences |-> prefs]

Availability(start, end, off) ==
    [start_slot |-> start, end_slot |-> end, is_off |-> off]

\* The windows and limits the generator is called with.
GenAvailabilities ==
    {Availability(s, e, off) :
        s \in {0 - 2, 0, 1, 10, 40, 50}, e \in {16, 20, 36, 52, 68, 70},
        off \in BOOLEAN}

GenDailyLimits == {200, 240, 300, 400, 480, 600}

dayvars == <<request, candidates, slot_states, selected, cursor, block_state,
             start_state, assignment, schedule, errors>>

weekvars == <<week_request, weekly_states, date_i, day_schedules, week_errors>>

genvars == <<gen_in, gen_out>>

demandvars == <<demand_curve, coverage_timeline, metrics>>

cpvars == <<solver_type, config, cp_result, stats>>

\* The generator's variables while the generator is not run on its own.
NoGen == gen_in = None /\ gen_out = <<>>

\* The metrics' variables while no demand is measured.
NoDemand == demand_curve = None /\ coverage_timeline = <<>> /\ metrics = None

\* The CP solver's variables while it is not in use.
NoCp == solver_type = None /\ config = None /\ cp_result = None /\ stats = None

\* The week's variables while no week is scheduled.
NoWeek ==
    /\ week_request = None /\ weekly_states = <<>> /\ date_i = 0
    /\ day_schedules = <<>> /\ week_errors = {}

\* The day's variables while no single day is scheduled.
NoDay ==
    /\ request = None /\ candidates = None /\ slot_states = None
    /\ selected = None /\ cursor = 0 /\ block_state = None
    /\ start_state = None /\ assignment = None /\ schedule = None
    /\ errors = None

InitGen ==
    /\ pc = "generate_candidates"
    /\ gen_in \in {[associate |-> Associate(1, av, m, JobRole, {}, <<>>),
                    day_slots |-> total_slots, step_slots |-> st] :
                      av \in GenAvailabilities, m \in GenDailyLimits,
                      st \in 1..MaxStepSlots}
    /\ gen_out = <<>>
    /\ NoDay
    /\ NoWeek
    /\ NoDemand
    /\ NoCp

GenerateCandidates ==
    /\ pc = "generate_candidates"
    /\ gen_out' = generate_candidates(gen_in.associate, gen_in.day_slots,
                                      gen_in.step_slots)
    /\ pc' = "returned"
    /\ UNCHANGED <<gen_in, dayvars, weekvars, demandvars, cpvars>>

NextGen == GenerateCandidates

SpecGen == InitGen /\ [][NextGen]_vars

\* The skeletons the generator has to return, as a set.
Skeletons(associate, day_slots, step_slots) ==
    LET av == associate.availability
        lo == Max(0, av.start_slot)
        min_work_slots == min_work_minutes \div slot_minutes
        max_work_slots == max_work_minutes \div slot_minutes
        starts == {x \in lo..(av.end_slot - 1) : (x - lo) % step_slots = 0}
        works == {w \in min_work_slots..max_work_slots :
                     (w - min_work_slots) % step_slots = 0}
        lunch(w) == get_lunch_duration(w * slot_minutes) \div slot_minutes
    IN  {ShiftCandidate(associate.id, x, x + w + lunch(w), w * slot_minutes,
                        lunch(w), get_break_count(w * slot_minutes)) :
            <<x, w>> \in {q \in starts \X works :
                /\ q[2] * slot_minutes <= associate.max_minutes_per_day
                /\ q[1] + q[2] + lunch(q[2]) <= Min(av.end_slot, day_slots)}}

\* C10: generate_candidates returns exactly the skeletons on the step grid
\* that respect the daily limit and end inside min(avail.end, total_slots),
\* each once and with the policies' lunch_slots and break_count; it returns
\* none when the worker is off or the window is shorter than min_work_slots.
C10_GenerateExactly ==
    pc = "returned" =>
        LET av == gen_in.associate.availability
            window == Min(gen_in.day_slots, av.end_slot) - Max(0, av.start_slot)
        IN  IF av.is_off \/ window < min_work_minutes \div slot_minutes
            THEN gen_out = <<>>
            ELSE /\ {gen_out[k] : k \in 1..Len(gen_out)}
                      = Skeletons(gen_in.associate, gen_in.day_slots,
                                  gen_in.step_slots)
                 /\ \A i, j \in 1..Len(gen_out) : gen_out[i] = gen_out[j] => i = j

\* A call that returned candidates with and without lunch while the daily
\* limit cut the longer ones off.
C10_Witness ==
    /\ pc = "returned"
    /\ gen_in.associate.max_minutes_per_day < max_work_minutes
    /\ gen_in.associate.availability.end_slot > gen_in.day_slots
    /\ \E k \in 1..Len(gen_out) : gen_out[k].lunch_slots > 0
    /\ \E k \in 1..Len(gen_out) : gen_out[k].lunch_slots = 0

-----------------------------------------------------------------------------
(* One day: Scheduler.generate_schedule followed by validate: SpecDay.     *)

NumAssociates == 2

\* ScheduleRequest.job_caps: the default, and tighter or partial dicts.
default_job_caps ==
    [r \in JobRole |->
        CASE r = "PICKING" -> 999
          [] r = "BACKROOM" -> 8
          [] OTHER -> 2]

DayJobCaps ==
    {default_job_caps,
     [r \in {"PICKING", "GMD_SM"} |-> 1],
     [r \in {"GMD_SM", "STAGING"} |-> 0]}

DayAvailabilities ==
    {Availability(0, 68, FALSE), Availability(0, 40, FALSE),
     Availability(12, 52, FALSE)}

DayDailyLimits == {240, 300, 360, 390, 480}

\* (supervisor_allowed_roles, cannot_do_roles, role_preferences)
AllRoles == <<JobRole, {}, <<>>>>
PickingOnly == <<{"PICKING"}, {}, <<>>>>
GmdOnly == <<{"GMD_SM"}, {}, <<>>>>
NoEligibleRole == <<{"PICKING", "GMD_SM"}, {"PICKING", "GMD_SM"}, <<>>>>
AvoidsAll == <<{"GMD_SM", "STAGING", "SR"}, {"SR"},
               [r \in {"GMD_SM", "STAGING"} |-> AVOID]>>

PickingOrGmd == <<{"PICKING", "GMD_SM"}, {}, <<>>>>
PickingOrSr == <<{"PICKING", "SR"}, {}, <<>>>>

DayRoleProfiles ==
    {AllRoles, PickingOnly, GmdOnly, NoEligibleRole, AvoidsAll, PickingOrGmd,
     PickingOrSr}

\* The workers of requests with several workers.
CoreProfiles ==
    {<<Availability(0, 68, FALSE), 480, AllRoles>>,
     <<Availability(12, 52, FALSE), 390, AllRoles>>,
     <<Availability(0, 40, FALSE), 300, AllRoles>>,
     <<Availability(0, 68, FALSE), 480, PickingOnly>>,
     <<Availability(12, 52, FALSE), 360, PickingOnly>>,
     <<Availability(0, 68, FALSE), 480, GmdOnly>>,
     <<Availability(0, 40, FALSE), 240, GmdOnly>>,
     <<Availability(0, 68, FALSE), 360, NoEligibleRole>>,
     <<Availability(12, 52, FALSE), 480, AvoidsAll>>,
     <<Availability(0, 34, FALSE), 480, PickingOrGmd>>}

ScheduleRequest(associates, job_caps, is_busy_day, step_slots, blocks, starts) ==
    [associates |-> associates, job_caps |-> job_caps, slot_range_caps |-> <<>>,
     time_based_job_caps |-> <<>>,
     is_busy_day |-> is_busy_day, step_slots |-> step_slots,
     shift_block_configs |-> blocks, shift_start_configs |-> starts]

Workers(f) ==
    [i \in DOMAIN f |-> Associate(i, f[i][1], f[i][2], f[i][3][1], f[i][3][2],
                                  f[i][3][3])]

\* One worker of any profile on the default grid and on a grid of odd shift
\* lengths; several workers of the core profiles on the default grid.
DayRequests ==
    {ScheduleRequest(Workers(f), caps, busy, step, <<>>, <<>>) :
        f \in [1..1 -> DayAvailabilities \X DayDailyLimits \X DayRoleProfiles],
        caps \in DayJobCaps, busy \in BOOLEAN, step \in {2, 3}}
    \cup
    {ScheduleRequest(Workers(f), caps, busy, 2, <<>>, <<>>) :
        f \in UNION {[1..n -> CoreProfiles] : n \in 2..NumAssociates},
        caps \in DayJobCaps, busy \in BOOLEAN}

\* The orders in which the interpreter may iterate a set of roles.
RoleIterations ==
    {<<"PICKING", "GMD_SM", "EXCEPTION_SM", "STAGING", "BACKROOM", "SR">>,
     <<"SR", "BACKROOM", "STAGING", "EXCEPTION_SM", "GMD_SM", "PICKING">>}

InitDay ==
    /\ pc = "generate_schedule"
    /\ request \in DayRequests
    /\ candidates = <<>>
    /\ slot_states = SelectState.ss
    /\ selected = <<>>
    /\ cursor = 1
    /\ block_state = <<>>
    /\ start_state = <<>>
    /\ assignment = None
    /\ schedule = <<>>
    /\ errors = {}
    /\ NoGen /\ NoDemand /\ NoCp
    /\ NoWeek

\* Scheduler.generate_schedule up to the call of the solver.
GenerateAllCandidates ==
    /\ pc = "generate_schedule"
    /\ candidates' = generate_all_candidates(request)
    /\ pc' = "select_shifts"
    /\ UNCHANGED <<weekvars, genvars, demandvars, cpvars, request, slot_states, selected, cursor,
                   block_state, start_state, assignment, schedule, errors>>

\* One iteration of the associate loop of _select_shifts.
SelectShift ==
    /\ pc = "select_shifts"
    /\ cursor <= Len(candidates)
    /\ LET st == select_one([selected |-> selected, ss |-> slot_states,
                             blocks |-> block_state, starts |-> start_state],
                            candidates[sorted_associates(candidates)[cursor]],
                            request)
       IN  /\ selected' = st.selected
           /\ slot_states' = st.ss
           /\ block_state' = st.blocks
           /\ start_state' = st.starts
    /\ cursor' = cursor + 1
    /\ UNCHANGED <<weekvars, pc, genvars, demandvars, cpvars, request, candidates, assignment,
                   schedule, errors>>

\* selected_shifts.sort(key=start_slot) after the associate loop.
SortSelected ==
    /\ pc = "select_shifts"
    /\ cursor > Len(candidates)
    /\ selected' = sort_by_start(selected)
    /\ cursor' = 1
    /\ pc' = "place_lunch"
    /\ UNCHANGED <<weekvars, genvars, demandvars, cpvars, request, candidates, slot_states,
                   block_state, start_state, assignment, schedule, errors>>

\* solve(): the base assignment of the next selected shift and its lunch.
PlaceLunch ==
    /\ pc = "place_lunch"
    /\ cursor <= Len(selected)
    /\ LET l == lunch_step(selected[cursor], slot_states, request)
       IN  assignment' = l.asg /\ slot_states' = l.ss
    /\ pc' = "place_breaks"
    /\ UNCHANGED <<weekvars, genvars, demandvars, cpvars, request, candidates, selected, cursor,
                   block_state, start_state, schedule, errors>>

\* solve(): the breaks of the shift.
PlaceBreaks ==
    /\ pc = "place_breaks"
    /\ LET b == breaks_step(selected[cursor], assignment, slot_states)
       IN  assignment' = b.asg /\ slot_states' = b.ss
    /\ pc' = "assign_roles"
    /\ UNCHANGED <<weekvars, genvars, demandvars, cpvars, request, candidates, selected, cursor,
                   block_state, start_state, schedule, errors>>

\* solve(): the roles of the shift; the assignment enters the schedule.
AssignRoles ==
    /\ pc = "assign_roles"
    /\ \E iteration \in RoleIterations :
        LET candidate == selected[cursor]
            r == roles_step(candidate, assignment,
                            request.associates[candidate.associate_id],
                            slot_states, request, iteration)
        IN  /\ assignment' = r.asg
            /\ slot_states' = r.ss
            /\ schedule' = put(schedule, candidate.associate_id, r.asg)
    /\ cursor' = cursor + 1
    /\ pc' = "place_lunch"
    /\ UNCHANGED <<weekvars, genvars, demandvars, cpvars, request, candidates, selected,
                   block_state, start_state, errors>>

\* ScheduleValidator.validate on the returned schedule and its request.
Validate ==
    /\ pc = "place_lunch"
    /\ cursor > Len(selected)
    /\ errors' = validate(schedule, request)
    /\ pc' = "validated"
    /\ UNCHANGED <<weekvars, genvars, demandvars, cpvars, request, candidates, slot_states, selected,
                   cursor, block_state, start_state, assignment, schedule>>

NextDay ==
    \/ GenerateAllCandidates
    \/ SelectShift
    \/ SortSelected
    \/ PlaceLunch
    \/ PlaceBreaks
    \/ AssignRoles
    \/ Validate

SpecDay == InitDay /\ [][NextDay]_vars

-----------------------------------------------------------------------------
(* One week: WeeklyScheduler.generate_schedule followed by                  *)
(* validate_weekly_schedule: SpecWeek.                                      *)

NumDays == 7
NumWeekAssociates == 2

\* FairnessConfig.max_hours_variance
max_hours_variance == 120

\* Monday 2024-01-15 and Friday 2024-01-19, as ordinals.
Monday == 738900
Friday == Monday + 4

\* A worker of the week: no availability entry on the dates at the absent
\* offsets, a window of no slots on the dates at the closed offsets.
WeekProfile(window, absent, closed, max_day, max_week, roles) ==
    [window |-> window, absent |-> absent, closed |-> closed,
     max_day |-> max_day, max_week |-> max_week, roles |-> roles]

FullTime == WeekProfile(Availability(0, 40, FALSE), {}, {}, 480, 2400, AllRoles)
ShortDays == WeekProfile(Availability(12, 52, FALSE), {}, {}, 240, 2400, PickingOnly)
PartWeek == WeekProfile(Availability(0, 40, FALSE), {1, 4}, {}, 480, 2400, AllRoles)
CappedWeek == WeekProfile(Availability(0, 68, FALSE), {}, {}, 480, 720, PickingOnly)
BelowMinimum == WeekProfile(Availability(0, 68, FALSE), {}, {}, 360, 200, AllRoles)
ClosedDay == WeekProfile(Availability(12, 52, FALSE), {5}, {2}, 390, 1000, GmdOnly)

WeekProfiles == {FullTime, ShortDays, PartWeek, CappedWeek, BelowMinimum, ClosedDay}
CoreWeekProfiles == {FullTime, ShortDays, PartWeek, CappedWeek}

WeekAssociate(id, profile, dates) ==
    [id |-> id,
     availability |->
        [d \in {dates[k] : k \in (1..Len(dates)) \ profile.absent} |->
            IF d - dates[1] + 1 \in profile.closed
            THEN Availability(profile.window.start_slot,
                              profile.window.start_slot, FALSE)
            ELSE profile.window],
     max_minutes_per_day |-> profile.max_day,
     max_minutes_per_week |-> profile.max_week,
     supervisor_allowed_roles |-> profile.roles[1],
     cannot_do_roles |-> profile.roles[2],
     role_preferences |-> profile.roles[3]]

WeeklyScheduleRequest(start_date, num_days, profiles, pattern, required) ==
    LET req == [start_date |-> start_date, end_date |-> start_date + num_days - 1]
    IN  [start_date |-> req.start_date, end_date |-> req.end_date,
         associates |-> [i \in DOMAIN profiles |->
                            WeekAssociate(i, profiles[i], schedule_dates(req))],
         job_caps |-> default_job_caps, busy_days |-> {start_date + 1},
         days_off_pattern |-> pattern, required_days_off |-> required,
         max_hours_variance |-> max_hours_variance, step_slots |-> 4,
         shift_block_configs |-> <<>>, shift_start_configs |-> <<>>]

DaysOffPattern ==
    {"NONE", "TWO_CONSECUTIVE", "ONE_WEEKEND_DAY", "EVERY_OTHER_DAY", "CUSTOM"}

\* Every pattern on a period that starts on a Monday; the patterns that look
\* at the calendar also on one that starts on a Friday.
PatternStarts ==
    (DaysOffPattern \X {Monday})
    \cup ({"TWO_CONSECUTIVE", "ONE_WEEKEND_DAY"} \X {Friday})

\* One worker of any profile; several workers of the core profiles.
WeekRequests ==
    {WeeklyScheduleRequest(ps[2], n, f, ps[1], required) :
        f \in [1..1 -> WeekProfiles]
              \cup UNION {[1..k -> CoreWeekProfiles] : k \in 2..NumWeekAssociates},
        ps \in PatternStarts, n \in 1..NumDays, required \in {1, 2}}

InitWeek ==
    /\ pc = "schedule_week"
    /\ week_request \in WeekRequests
    /\ weekly_states = init_weekly_states(week_request.associates)
    /\ date_i = 1
    /\ day_schedules = <<>>
    /\ week_errors = {}
    /\ NoGen /\ NoDemand /\ NoCp
    /\ NoDay

\* _get_working_associates for the date the loop is at.
working_today ==
    LET all_dates == schedule_dates(week_request)
    IN  get_working_associates(week_request.associates, all_dates[date_i],
                               weekly_states,
                               SubSeq(all_dates, date_i, Len(all_dates)),
                               all_dates, week_request)

\* One iteration of the date loop of generate_schedule: somebody works.  The
\* locals of the loop body are bound in the order the code computes them.
ScheduleDay ==
    /\ pc = "schedule_week"
    /\ date_i <= Len(schedule_dates(week_request))
    /\ \E schedule_date \in {schedule_dates(week_request)[date_i]} :
       \E w \in {working_today} :
        /\ w.working /= <<>>
        /\ \E adjusted \in {adjust_associates_for_weekly_limits(
                                w.working, schedule_date, w.states)} :
           \E day_req \in {day_request(week_request, schedule_date, adjusted)} :
           \E cands \in {generate_fairness_aware_candidates(day_req, w.states)} :
           \E iteration \in RoleIterations :
           \E day_schedule \in {solve(day_req, cands, week_request.associates,
                                      iteration)} :
            /\ weekly_states' = update_weekly_states(day_schedule, schedule_date,
                                                     w.states, w.working)
            /\ day_schedules' = put(day_schedules, schedule_date, day_schedule)
    /\ date_i' = date_i + 1
    /\ UNCHANGED <<pc, week_request, week_errors, genvars, demandvars, cpvars, dayvars>>

\* One iteration of the date loop: nobody works, the DaySchedule is empty.
ScheduleEmptyDay ==
    /\ pc = "schedule_week"
    /\ date_i <= Len(schedule_dates(week_request))
    /\ \E w \in {working_today} :
        /\ w.working = <<>>
        /\ day_schedules' = put(day_schedules,
                                schedule_dates(week_request)[date_i], <<>>)
        /\ weekly_states' = w.states
    /\ date_i' = date_i + 1
    /\ UNCHANGED <<pc, week_request, week_errors, genvars, demandvars, cpvars, dayvars>>

\* validate_weekly_schedule on the returned week and its request.
ValidateWeek ==
    /\ pc = "schedule_week"
    /\ date_i > Len(schedule_dates(week_request))
    /\ week_errors' = validate_weekly_schedule(day_schedules, week_request)
    /\ pc' = "week_validated"
    /\ UNCHANGED <<week_request, weekly_states, date_i, day_schedules,
                   genvars, demandvars, cpvars, dayvars>>

NextWeek ==
    \/ ScheduleDay
    \/ ScheduleEmptyDay
    \/ ValidateWeek

SpecWeek == InitWeek /\ [][NextWeek]_vars

-----------------------------------------------------------------------------
(* Properties of the produced DaySchedule.                                 *)

\* The solver has returned and the validator has run.
Produced == pc = "validated"

job_cap(job_caps, role) ==
    IF role \in DOMAIN job_caps THEN job_caps[role] ELSE UNCAPPED

\* C1: the DaySchedule the heuristic produces for a single-day request, given
\* to validate with the same request and workers, yields zero errors.
C1_ValidatorAcceptsProduced ==
    Produced => errors = {}

\* C2: in every produced DaySchedule, for every slot t and every role r
\* (PICKING included), the workers on the floor at t whose role block at t is
\* r number at most job_caps[r] (999 when absent).
C2_RoleCoverageWithinCaps ==
    Produced =>
        \A t \in Slots : \A r \in JobRole :
            get_role_coverage_at_slot(schedule, t, r) <= job_cap(request.job_caps, r)

Blocks(asg) ==
    {asg.break_blocks[k] : k \in 1..Len(asg.break_blocks)}

InsideShift(asg, block) ==
    asg.shift_start_slot <= block.start_slot /\ block.end_slot <= asg.shift_end_slot

\* C5: in every assignment the heuristic produces, the lunch block and every
\* break block lie inside [shift_start, shift_end), no break overlaps the
\* lunch, and no two breaks overlap.
C5_LunchAndBreaksPlaced ==
    \A a \in DOMAIN schedule :
        LET asg == schedule[a]
        IN  /\ asg.lunch_block /= NoRecord => InsideShift(asg, asg.lunch_block)
            /\ \A b \in Blocks(asg) : InsideShift(asg, b)
            /\ asg.lunch_block /= NoRecord =>
                   \A b \in Blocks(asg) : ~overlaps(b, asg.lunch_block)
            /\ \A i, j \in 1..Len(asg.break_blocks) :
                   i /= j => ~overlaps(asg.break_blocks[i], asg.break_blocks[j])

\* A produced schedule of two workers in which one shift has a lunch and two
\* breaks and another has a break and no lunch.
C5_Witness ==
    /\ Produced
    /\ \E a, b \in DOMAIN schedule :
        /\ a /= b
        /\ schedule[a].lunch_block /= NoRecord
        /\ Len(schedule[a].break_blocks) = 2
        /\ schedule[b].lunch_block = NoRecord
        /\ Len(schedule[b].break_blocks) = 1
        /\ schedule[b].shift_start_slot < schedule[a].shift_end_slot
        /\ schedule[a].shift_start_slot < schedule[b].shift_end_slot

RoleBlocksAt(asg, slot) ==
    {k \in 1..Len(asg.job_assignments) :
        contains_slot(asg.job_assignments[k].block, slot)}

\* C6: in every assignment the heuristic produces, the role blocks exactly
\* partition the on-floor slots of the shift: every on-floor slot is covered
\* by exactly one role block, and no role block covers a lunch slot, a break
\* slot or a slot outside the shift.
C6_RoleBlocksPartitionFloor ==
    Produced =>
        \A a \in DOMAIN schedule : \A slot \in 0 - 1 .. total_slots :
            Cardinality(RoleBlocksAt(schedule[a], slot))
                = IF is_on_floor(schedule[a], slot) THEN 1 ELSE 0

\* C7: a worker whose eligibility set allowed_roles \ forbidden_roles is empty
\* never appears in the assignments of a produced DaySchedule.
C7_NoEligibleRoleNotScheduled ==
    Produced =>
        \A a \in DOMAIN schedule : eligible_roles(request.associates[a]) /= {}

\* The assignment and slot state a run leaves after the roles of the current
\* shift, when its interpreter iterates sets of roles in the given order.
run_roles(iteration) ==
    roles_step(selected[cursor], assignment,
               request.associates[selected[cursor].associate_id],
               slot_states, request, iteration)

\* C11: two runs of the heuristic on identical inputs (same request, same
\* workers, same candidates in the same order) return identical DaySchedules:
\* up to the role assignment of a shift the runs are in the same state, and
\* they give that shift the same role blocks.
C11_RunsAgree ==
    pc = "assign_roles" =>
        \A first, second \in RoleIterations :
            run_roles(first).asg = run_roles(second).asg

\* The role of the role block that covers exactly the period, None without one.
role_of_period(jobs, period) ==
    LET K == {k \in 1..Len(jobs) : jobs[k].block = period}
    IN  IF K = {} THEN None ELSE jobs[CHOOSE k \in K : TRUE].role

\* The on-floor intervals of the shift whose roles are being assigned.
current_periods == get_work_periods(selected[cursor], assignment)

\* C12: in the heuristic's role assignment, for every on-floor interval after
\* a worker's first: if the shift starts in the opening hour or the initial
\* role is one of GMD_SM, EXCEPTION_SM, SR, BACKROOM, the interval gets the
\* initial role whenever that role's count is below its cap on every slot of
\* the interval (so an opener that starts with PICKING keeps PICKING).
C12_InitialRolePersists ==
    pc = "assign_roles" =>
        \A iteration \in RoleIterations :
            LET jobs == run_roles(iteration).asg.job_assignments
                periods == current_periods
                initial_role == role_of_period(jobs, periods[1])
            IN  \A k \in 2..Len(periods) :
                    /\ initial_role /= None
                    /\ \/ selected[cursor].start_slot < 60 \div slot_minutes
                       \/ initial_role \in {"GMD_SM", "EXCEPTION_SM", "SR", "BACKROOM"}
                    /\ \A slot \in periods[k].start_slot..(periods[k].end_slot - 1) :
                           slot_states[slot].role_counts[initial_role]
                               < job_cap(request.job_caps, initial_role)
                    => role_of_period(jobs, periods[k]) = initial_role

\* An opener whose first interval is PICKING because GMD_SM is at its cap
\* there, and who keeps PICKING on a later interval where GMD_SM is free.
C12_Witness ==
    /\ pc = "assign_roles"
    /\ selected[cursor].start_slot < opening_hour_slots
    /\ Len(current_periods) >= 2
    /\ \E iteration \in RoleIterations :
        LET jobs == run_roles(iteration).asg.job_assignments
            associate == request.associates[selected[cursor].associate_id]
        IN  /\ role_of_period(jobs, current_periods[1]) = "PICKING"
            /\ \E k \in 2..Len(current_periods) :
                /\ role_of_period(jobs, current_periods[k]) = "PICKING"
                /\ "GMD_SM" \in eligible_roles(associate)
                /\ can_assign("GMD_SM", current_periods[k], slot_states,
                              request.job_caps, request.slot_range_caps)

-----------------------------------------------------------------------------
(* Properties of the produced WeeklySchedule.                              *)

WeekIds == 1..Len(week_request.associates)

\* The dates of the period on which the worker has a shift.
ShiftDates(a) ==
    {d \in DOMAIN day_schedules : a \in DOMAIN day_schedules[d]}

\* The weekly coordinator has returned and the weekly validator has run.
WeekProduced == pc = "week_validated"

\* C3: after every day the weekly coordinator has processed, and so at the end
\* of the week, the work_minutes of a worker's shifts sum to at most the
\* worker's max_minutes_per_week; a worker whose max_minutes_per_week is below
\* min_work_minutes has no shift on any date.
C3_WeeklyMinutesWithinLimit ==
    \A a \in WeekIds :
        LET associate == week_request.associates[a]
        IN  /\ get_associate_weekly_minutes(day_schedules, a)
                   <= associate.max_minutes_per_week
            /\ associate.max_minutes_per_week < min_work_minutes
                   => ShiftDates(a) = {}

\* A produced week in which a worker has reached the weekly limit with a
\* shift that was cut to the minutes the limit had left.
C3_Witness ==
    /\ WeekProduced
    /\ \E a \in WeekIds :
        /\ get_associate_weekly_minutes(day_schedules, a)
               = week_request.associates[a].max_minutes_per_week
        /\ \E d \in ShiftDates(a) :
               work_minutes_of(day_schedules[d][a])
                   < week_request.associates[a].max_minutes_per_day
        /\ Cardinality(ShiftDates(a)) >= 2

\* The dates of the period on which the worker has no shift.
DatesWithoutShift(a) ==
    {d \in DOMAIN day_schedules : a \notin DOMAIN day_schedules[d]}

NumDates == week_request.end_date - week_request.start_date + 1

\* C4: for every days-off pattern (NONE included) and every period of at
\* least required_days_off dates, each worker ends the week with at least
\* required_days_off dates without a shift.
C4_RequiredDaysOff ==
    WeekProduced /\ NumDates >= week_request.required_days_off =>
        \A a \in WeekIds :
            Cardinality(DatesWithoutShift(a)) >= week_request.required_days_off

\* The same with NONE left out: under every other pattern each worker ends
\* the week with at least required_days_off dates without a shift.
PatternedWeeksHaveRequiredDaysOff ==
    /\ WeekProduced
    /\ NumDates >= week_request.required_days_off
    /\ week_request.days_off_pattern /= "NONE"
    => \A a \in WeekIds :
           Cardinality(DatesWithoutShift(a)) >= week_request.required_days_off

\* C8: under TWO_CONSECUTIVE with a period of at least two dates, every
\* worker ends the week with two dates without a shift on consecutive calendar
\* days, and validate_weekly_schedule reports no DAYS_OFF_PATTERN_VIOLATED.
C8_TwoConsecutiveDaysOff ==
    /\ WeekProduced
    /\ week_request.days_off_pattern = "TWO_CONSECUTIVE"
    /\ NumDates >= 2
    => /\ \A a \in WeekIds :
              \E d \in DatesWithoutShift(a) : d + 1 \in DatesWithoutShift(a)
       /\ \A e \in week_errors : e.error_type /= "DAYS_OFF_PATTERN_VIOLATED"

\* A produced week under TWO_CONSECUTIVE in which a worker who was available
\* on every date has shifts and exactly two dates without one.
C8_Witness ==
    /\ WeekProduced
    /\ week_request.days_off_pattern = "TWO_CONSECUTIVE"
    /\ NumDates >= 5
    /\ \E a \in WeekIds :
        /\ DOMAIN week_request.associates[a].availability = DOMAIN day_schedules
        /\ Cardinality(DatesWithoutShift(a)) = 2
        /\ Cardinality(ShiftDates(a)) >= 3

\* C9: under EVERY_OTHER_DAY no worker has shifts on two consecutive calendar
\* dates: a worker with a shift on date d - 1 has none on date d.
C9_EveryOtherDay ==
    week_request.days_off_pattern = "EVERY_OTHER_DAY" =>
        \A a \in WeekIds : \A d \in ShiftDates(a) : d - 1 \notin ShiftDates(a)

\* A produced week under EVERY_OTHER_DAY in which a worker has shifts on three
\* dates, each two days after the one before.
C9_Witness ==
    /\ WeekProduced
    /\ week_request.days_off_pattern = "EVERY_OTHER_DAY"
    /\ \E a \in WeekIds : \E d \in ShiftDates(a) :
        /\ d + 2 \in ShiftDates(a)
        /\ d + 4 \in ShiftDates(a)

\* The worker has no window on the date that could hold the shortest shift.
cannot_work(associate, schedule_date) ==
    LET availability == get_availability(associate, schedule_date)
    IN  \/ availability.is_off
        \/ slot_count(availability) * slot_minutes < min_work_minutes

\* C13: the weekly coordinator returns a WeeklySchedule holding exactly one
\* DaySchedule for every date from start_date to end_date inclusive; a date on
\* which no worker can take a shift gets an empty DaySchedule and every later
\* date is still processed.
C13_OneDaySchedulePerDate ==
    /\ DOMAIN day_schedules
           = week_request.start_date .. (week_request.start_date + date_i - 2)
    /\ WeekProduced =>
           DOMAIN day_schedules = week_request.start_date .. week_request.end_date
    /\ \A d \in DOMAIN day_schedules :
           (\A a \in WeekIds : cannot_work(week_request.associates[a], d))
               => day_schedules[d] = <<>>

\* A returned week in which nobody could work on some date, that date has an
\* empty DaySchedule, and a later date has a shift.
C13_Witness ==
    /\ WeekProduced
    /\ \E d, later \in DOMAIN day_schedules :
        /\ d < later
        /\ \A a \in WeekIds : cannot_work(week_request.associates[a], d)
        /\ day_schedules[d] = <<>>
        /\ day_schedules[later] /= <<>>

\* The date loop has a date left to process.
InDateLoop == pc = "schedule_week" /\ date_i <= NumDates

\* C15: the weekly coordinator processes dates in strictly ascending order,
\* and the worker selection, the daily caps and the candidate ordering of a
\* date are computed from weekly state that already includes every shift of
\* the earlier dates; minutes_scheduled and days_worked change only in the
\* update step that follows a day's solve.
C15_WeeklyStateIsCurrent ==
    /\ DOMAIN day_schedules
           = {week_request.start_date + k - 1 : k \in 1..(date_i - 1)}
    /\ \A a \in WeekIds :
        LET state == weekly_states[a]
        IN  /\ state.minutes_scheduled
                   = get_associate_weekly_minutes(day_schedules, a)
            /\ {state.days_worked[k] : k \in 1..Len(state.days_worked)}
                   = ShiftDates(a)
            /\ \A j, k \in 1..Len(state.days_worked) :
                   j < k => state.days_worked[j] < state.days_worked[k]
            /\ InDateLoop =>
                   /\ working_today.states[a].minutes_scheduled
                          = state.minutes_scheduled
                   /\ working_today.states[a].days_worked = state.days_worked

\* The selection of a date finds a worker with two earlier shifts whose
\* remaining weekly minutes are below the daily limit.
C15_Witness ==
    /\ InDateLoop
    /\ \E a \in WeekIds :
        /\ Len(weekly_states[a].days_worked) >= 2
        /\ remaining_minutes(weekly_states[a]) >= min_work_minutes
        /\ remaining_minutes(weekly_states[a])
               < week_request.associates[a].max_minutes_per_day
        /\ \E k \in 1..Len(working_today.working) :
               working_today.working[k].id = a

-----------------------------------------------------------------------------
(* Demand curves and DemandMetrics.calculate: SpecMetrics.                  *)

DemandPriority == {"LOW", "NORMAL", "HIGH", "CRITICAL"}

default_max_staff == 99

\* DemandPoint with the clamps of __post_init__.
DemandPoint(slot, min_staff, target_staff, max_staff, priority) ==
    LET min0 == Max(min_staff, 0)
        target0 == Max(target_staff, min0)
    IN  [slot |-> slot, min_staff |-> min0, target_staff |-> target0,
         max_staff |-> Max(max_staff, target0), priority |-> priority]

DemandCurve(total_demand, priority_periods) ==
    [total_demand |-> total_demand, priority_periods |-> priority_periods]

\* DemandCurve.get_demand_at_slot
get_demand_at_slot(curve, slot) ==
    IF slot \in DOMAIN curve.total_demand THEN curve.total_demand[slot]
    ELSE DemandPoint(slot, 0, 1, default_max_staff, "NORMAL")

\* DemandCurve.get_priority_at_slot
get_priority_at_slot(curve, slot) ==
    LET periods == curve.priority_periods
        K == {k \in 1..Len(periods) : periods[k][1] <= slot /\ slot < periods[k][2]}
    IN  IF K /= {} THEN periods[CHOOSE k \in K : \A j \in K : k <= j][3]
        ELSE IF slot \in DOMAIN curve.total_demand
        THEN curve.total_demand[slot].priority
        ELSE "NORMAL"

\* DemandCurve.get_min_staff_at_slot
get_min_staff_at_slot(curve, slot) == get_demand_at_slot(curve, slot).min_staff

\* A float quotient kept exact as numerator and denominator.
Ratio(num, den) == [num |-> num, den |-> den]

\* total_coverage / total_demand * 100, and 100.0 without demand.
match_score_of(total_coverage, total_demand) ==
    IF total_demand > 0 THEN Ratio(total_coverage * 100, total_demand)
    ELSE Ratio(100, 1)

\* The sum the metrics would accumulate if coverage counted up to the target.
coverage_up_to_target(curve, timeline) ==
    SumSeq([k \in 1..Len(timeline) |->
               Min(timeline[k], get_demand_at_slot(curve, k - 1).target_staff)], 1)

\* total_coverage of calculate: coverage counted up to max_staff.
coverage_up_to_max(curve, timeline) ==
    SumSeq([k \in 1..Len(timeline) |->
               Min(timeline[k], get_demand_at_slot(curve, k - 1).max_staff)], 1)

\* DemandMetrics.calculate; slot k - 1 of the code is element k of the timeline.
calculate(curve, timeline, slot_mins) ==
    LET n == Len(timeline)
        point(k) == get_demand_at_slot(curve, k - 1)
        total_demand == SumSeq([k \in 1..n |-> point(k).target_staff], 1)
        total_coverage == coverage_up_to_max(curve, timeline)
        under(k) == timeline[k] < point(k).min_staff
        over(k) == ~under(k) /\ timeline[k] > point(k).max_staff
        of_priority(pr) == {k \in 1..n : get_priority_at_slot(curve, k - 1) = pr}
        priority_demand(pr) ==
            SumSeq([k \in 1..n |-> IF k \in of_priority(pr)
                                   THEN point(k).target_staff ELSE 0], 1)
        priority_coverage(pr) ==
            SumSeq([k \in 1..n |-> IF k \in of_priority(pr)
                                   THEN Min(timeline[k], point(k).target_staff)
                                   ELSE 0], 1)
    IN  [total_demand_minutes |-> total_demand * slot_mins,
         total_coverage_minutes |-> total_coverage * slot_mins,
         undercoverage_minutes |->
            SumSeq([k \in 1..n |-> IF under(k)
                                   THEN (point(k).min_staff - timeline[k]) * slot_mins
                                   ELSE 0], 1),
         overcoverage_minutes |->
            SumSeq([k \in 1..n |-> IF over(k)
                                   THEN (timeline[k] - point(k).max_staff) * slot_mins
                                   ELSE 0], 1),
         match_score |-> match_score_of(total_coverage, total_demand),
         priority_match_scores |->
            [pr \in {q \in DemandPriority : priority_demand(q) > 0} |->
                Ratio(priority_coverage(pr) * 100, priority_demand(pr))],
         slot_deficits |-> {k - 1 : k \in {j \in 1..n : under(j)}},
         slot_surpluses |-> {k - 1 : k \in {j \in 1..n : over(j)}}]

MaxTimeline == 2
MaxCoverage == 3

\* The demand a slot can carry: (min_staff, target_staff, max_staff, priority).
DemandLevels ==
    {<<0, 0, 0, "LOW">>, <<0, 1, default_max_staff, "NORMAL">>,
     <<1, 2, 2, "HIGH">>, <<2, 1, 0, "NORMAL">>, <<0, 2, 3, "CRITICAL">>}

InitMetrics ==
    /\ pc = "calculate"
    /\ \E n \in 0..MaxTimeline :
        /\ coverage_timeline \in [1..n -> 0..MaxCoverage]
        /\ \E D \in SUBSET (0..(n - 1)) :
            demand_curve \in
                {DemandCurve([slot \in D |-> DemandPoint(slot, f[slot][1],
                                 f[slot][2], f[slot][3], f[slot][4])], periods) :
                    f \in [D -> DemandLevels],
                    periods \in {<<>>, <<<<0, 1, "CRITICAL">>>>}}
    /\ metrics = None
    /\ NoGen /\ NoCp /\ NoDay /\ NoWeek

\* DemandMetrics.calculate(demand_curve, coverage_timeline, slot_minutes).
Calculate ==
    /\ pc = "calculate"
    /\ metrics' = calculate(demand_curve, coverage_timeline, slot_minutes)
    /\ pc' = "calculated"
    /\ UNCHANGED <<demand_curve, coverage_timeline, genvars, cpvars, dayvars,
                   weekvars>>

NextMetrics == Calculate

SpecMetrics == InitMetrics /\ [][NextMetrics]_vars

\* The sum of the targets over the slots of the timeline.
total_target ==
    SumSeq([k \in 1..Len(coverage_timeline) |->
               get_demand_at_slot(demand_curve, k - 1).target_staff], 1)

\* C14: match_score equals 100 * sum of min(coverage(t), target(t)) over the
\* sum of target(t), and 100 when the sum of the targets is 0; it lies in
\* [0, 100] for every coverage timeline, also when coverage is above target.
C14_MatchScore ==
    pc = "calculated" =>
        /\ IF total_target = 0
           THEN metrics.match_score.num = 100 * metrics.match_score.den
           ELSE metrics.match_score.num * total_target
                    = 100 * coverage_up_to_target(demand_curve, coverage_timeline)
                          * metrics.match_score.den
        /\ 0 <= metrics.match_score.num
        /\ metrics.match_score.num <= 100 * metrics.match_score.den

-----------------------------------------------------------------------------
(* The CP solver: what CPSATSolver does around the OR-Tools call.           *)

break_search_offsets == 9

\* The starts the break search of the CP solver tries around a target, in
\* the order of its offset and direction loops.
break_search_order(target) ==
    [k \in 1..(2 * break_search_offsets - 1) |->
        IF k = 1 THEN target
        ELSE IF k % 2 = 0 THEN target + k \div 2
        ELSE target - k \div 2]

RECURSIVE cp_place_breaks_loop(_, _, _, _, _)
cp_place_breaks_loop(targets, k, candidate, used_slots, breaks) ==
    IF k > Len(targets) THEN breaks
    ELSE LET break_slots == break_duration \div slot_minutes
             order == break_search_order(targets[k])
             K == {j \in 1..Len(order) :
                      /\ order[j] >= candidate.start_slot
                      /\ order[j] + break_slots <= candidate.end_slot
                      /\ \A slot \in order[j]..(order[j] + break_slots - 1) :
                             slot \notin used_slots}
             best_start == IF K = {} THEN targets[k]
                           ELSE order[CHOOSE j \in K : \A m \in K : j <= m]
         IN  cp_place_breaks_loop(targets, k + 1, candidate,
                 used_slots \cup (best_start..(best_start + break_slots - 1)),
                 Append(breaks, ScheduleBlock(best_start, best_start + break_slots)))

\* CPSATSolver._place_breaks
cp_place_breaks(candidate, lunch_block) ==
    LET lunch_start == IF lunch_block /= NoRecord THEN lunch_block.start_slot ELSE NoInt
        lunch_end == IF lunch_block /= NoRecord THEN lunch_block.end_slot ELSE NoInt
        targets == get_break_target_positions(candidate.start_slot,
                       candidate.end_slot, candidate.break_count,
                       lunch_start, lunch_end)
        used_slots == IF lunch_block /= NoRecord
                      THEN lunch_block.start_slot..(lunch_block.end_slot - 1)
                      ELSE {}
    IN  cp_place_breaks_loop(targets, 1, candidate, used_slots, <<>>)

cp_role_priority == <<"GMD_SM", "EXCEPTION_SM", "STAGING", "BACKROOM">>

\* The role CPSATSolver._assign_roles gives to every work period.
cp_role(associate, iteration) ==
    LET eligible == eligible_roles(associate)
        preferred == first_role(cp_role_priority,
                         LAMBDA r : r \in eligible
                                    /\ get_preference(associate, r) /= AVOID)
    IN  IF preferred /= None THEN preferred
        ELSE IF "PICKING" \in eligible THEN "PICKING"
        ELSE first_role(iteration, LAMBDA r : r \in eligible)

\* CPSATSolver._assign_roles; its _get_work_periods is the heuristic's.
cp_assign_roles(candidate, asg, associate, job_caps, iteration) ==
    IF eligible_roles(associate) = {} THEN <<>>
    ELSE LET periods == get_work_periods(candidate, asg)
         IN  [k \in 1..Len(periods) |->
                 [role |-> cp_role(associate, iteration), block |-> periods[k]]]

\* C17: for the same selected shift, the same lunch block and the same slot
\* state, the break placement and role assignment applied to a CP solution
\* give the same break blocks and role blocks as the heuristic's break
\* placement and role assignment.
C17_CpPostProcessingAgrees ==
    /\ pc = "place_breaks" =>
           cp_place_breaks(selected[cursor], assignment.lunch_block)
               = place_breaks(selected[cursor], assignment.lunch_block, slot_states)
    /\ pc = "assign_roles" =>
           \A iteration \in RoleIterations :
               cp_assign_roles(selected[cursor], assignment,
                               request.associates[selected[cursor].associate_id],
                               request.job_caps, iteration)
                   = run_roles(iteration).asg.job_assignments

\* Associate.can_do_role
can_do_role(associate, role) ==
    role \notin associate.cannot_do_roles /\ role \in associate.supervisor_allowed_roles

\* ScheduleRequest.get_job_cap: the slot's override, else the global cap.
get_job_cap(req, slot, role) ==
    IF slot \in DOMAIN req.time_based_job_caps
       /\ role \in DOMAIN req.time_based_job_caps[slot]
    THEN req.time_based_job_caps[slot][role]
    ELSE IF role \in DOMAIN req.job_caps THEN req.job_caps[role] ELSE UNCAPPED

\* SolverConfig with its default weights.
SolverConfig(enforce_min_demand) ==
    [demand_weight |-> 40, coverage_weight |-> 30, preference_weight |-> 10,
     undercoverage_penalty |-> 100, overcoverage_penalty |-> 10,
     enforce_min_demand |-> enforce_min_demand]

\* SolverConfig.priority_multipliers
priority_multipliers ==
    [pr \in DemandPriority |->
        CASE pr = "LOW" -> 1 [] pr = "NORMAL" -> 2 [] pr = "HIGH" -> 5
          [] pr = "CRITICAL" -> 10]

\* The choices the at-most-one and the lunch constraints leave an associate,
\* as the values of x[a][*] and lunch_vars[a][c][*]: c = 0 when no candidate
\* is selected, lunch = NoInt without a lunch position.
cp_choices(assoc_candidates, is_busy_day) ==
    {[c |-> 0, lunch |-> NoInt]} \cup
    UNION {LET candidate == assoc_candidates[c]
               window == get_lunch_window(candidate.start_slot, candidate.end_slot,
                                          candidate.lunch_slots, is_busy_day)
           IN  IF candidate.lunch_slots > 0
               THEN {[c |-> c, lunch |-> l] : l \in window.earliest..window.latest}
               ELSE {[c |-> c, lunch |-> NoInt]} : c \in 1..Len(assoc_candidates)}

\* The selected candidate of the associate covers the slot.
cp_in_shift(cands, sol, a, slot) ==
    /\ sol[a].c /= 0
    /\ cands[a][sol[a].c].start_slot <= slot
    /\ slot < cands[a][sol[a].c].end_slot

\* coverage[slot] of the CP model: selected and not at lunch.
cp_coverage(cands, sol, slot) ==
    Cardinality({a \in DOMAIN cands :
        /\ cp_in_shift(cands, sol, a, slot)
        /\ ~(/\ sol[a].lunch /= NoInt
             /\ sol[a].lunch <= slot
             /\ slot < sol[a].lunch + cands[a][sol[a].c].lunch_slots)})

\* What the model building loops of solve() fix before the search: the slots
\* whose coverage is an expression (some candidate covers them; elsewhere
\* coverage is the integer 0), each associate's choices, and the objective's
\* constant: the demand terms of the slots with coverage 0.
cp_model(req, cands, cfg, curve) ==
    LET live == {slot \in Slots :
                    \E a \in DOMAIN cands : \E c \in 1..Len(cands[a]) :
                        cands[a][c].start_slot <= slot /\ slot < cands[a][c].end_slot}
        static_term(slot) ==
            IF 0 < get_demand_at_slot(curve, slot).min_staff
            THEN 0 - cfg.undercoverage_penalty
                       * priority_multipliers[get_priority_at_slot(curve, slot)]
                       * get_demand_at_slot(curve, slot).min_staff
            ELSE 0
    IN  [live |-> live,
         choices |-> [a \in DOMAIN cands |-> cp_choices(cands[a], req.is_busy_day)],
         constant |-> IF curve /= NoRecord /\ cfg.demand_weight > 0
                      THEN SumSeq([k \in 1..total_slots |->
                                      IF k - 1 \in live THEN 0
                                      ELSE static_term(k - 1)], 1)
                      ELSE 0]

\* The role cap constraints: every associate who can do the role counts.
cp_role_caps_hold(req, cands, model, sol) ==
    \A role \in JobRole : \A slot \in model.live :
        get_job_cap(req, slot, role) < UNCAPPED =>
            Cardinality({a \in DOMAIN cands :
                            /\ can_do_role(req.associates[a], role)
                            /\ cp_in_shift(cands, sol, a, slot)})
                <= get_job_cap(req, slot, role)

\* The hard minimum: added inside the demand component, for slots whose
\* coverage is an expression.
cp_min_demand_holds(cfg, curve, cands, model, sol) ==
    (curve /= NoRecord /\ cfg.demand_weight > 0 /\ cfg.enforce_min_demand) =>
        \A slot \in model.live :
            get_min_staff_at_slot(curve, slot) > 0 =>
                cp_coverage(cands, sol, slot) >= get_min_staff_at_slot(curve, slot)

\* Every way to give the first k associates one of their choices.
RECURSIVE cp_assignments(_, _)
cp_assignments(choices, k) ==
    IF k = 0 THEN {<<>>}
    ELSE {Append(sol, choice) :
             sol \in cp_assignments(choices, k - 1), choice \in choices[k]}

\* The assignments of the decision variables that satisfy every constraint.
cp_feasible(req, cands, cfg, curve, model) ==
    {sol \in cp_assignments(model.choices, Len(cands)) :
        /\ cp_role_caps_hold(req, cands, model, sol)
        /\ cp_min_demand_holds(cfg, curve, cands, model, sol)}

\* The demand terms of a slot whose coverage is an expression, with under
\* and over at their best values.
cp_demand_term(cfg, curve, cands, sol, slot) ==
    LET point == get_demand_at_slot(curve, slot)
        mult == priority_multipliers[get_priority_at_slot(curve, slot)]
        covered == cp_coverage(cands, sol, slot)
    IN  0 - Max(0, point.target_staff - covered) * cfg.undercoverage_penalty * mult
          - Max(0, covered - point.target_staff) * cfg.overcoverage_penalty

\* The objective the model maximizes: coverage and demand terms per slot,
\* preference score and hours per selected candidate.
cp_objective(req, cands, cfg, curve, model, sol) ==
    LET slot_terms(slot) ==
            IF slot \notin model.live THEN 0
            ELSE cp_coverage(cands, sol, slot) * cfg.coverage_weight
                 + IF curve /= NoRecord /\ cfg.demand_weight > 0
                   THEN cp_demand_term(cfg, curve, cands, sol, slot) ELSE 0
        pref_score(associate) ==
            Cardinality({r \in eligible_roles(associate) :
                            get_preference(associate, r) = PREFER})
            - Cardinality({r \in eligible_roles(associate) :
                              get_preference(associate, r) = AVOID})
    IN  model.constant
        + SumSeq([k \in 1..total_slots |-> slot_terms(k - 1)], 1)
        + SumSeq([a \in 1..Len(cands) |->
                     IF sol[a].c = 0 THEN 0
                     ELSE pref_score(req.associates[a]) * cfg.preference_weight
                          + cands[a][sol[a].c].work_minutes \div 60], 1)

\* _extract_solution: the assignment of one selected candidate.
cp_extract_assignment(candidate, lunch, associate, job_caps, iteration) ==
    LET base == [ShiftAssignment(candidate) EXCEPT
                    !.lunch_block = IF lunch /= NoInt
                                    THEN ScheduleBlock(lunch, lunch + candidate.lunch_slots)
                                    ELSE NoRecord]
        with_breaks == [base EXCEPT
                    !.break_blocks = IF candidate.break_count > 0
                                     THEN cp_place_breaks(candidate, base.lunch_block)
                                     ELSE <<>>]
    IN  [with_breaks EXCEPT
            !.job_assignments = cp_assign_roles(candidate, with_breaks, associate,
                                                job_caps, iteration)]

\* _extract_solution: DaySchedule.assignments of a solved model.
extract_solution(sol, cands, req, iteration) ==
    [a \in {b \in DOMAIN cands : sol[b].c /= 0} |->
        cp_extract_assignment(cands[a][sol[a].c], sol[a].lunch, req.associates[a],
                              req.job_caps, iteration)]

SolverResult(status, has_schedule, sched, objective_value) ==
    [status |-> status, has_schedule |-> has_schedule, schedule |-> sched,
     objective_value |-> objective_value]

\* SolverResult.is_feasible
is_feasible(result) == result.status \in {"OPTIMAL", "FEASIBLE"}

\* What OR-Tools can hand back for the model: a status, and with OPTIMAL a
\* maximizer of the objective, with FEASIBLE any assignment that satisfies
\* the constraints; the time limit can also end the search without a
\* solution (UNKNOWN).
cp_search(req, cands, cfg, curve) ==
    LET model == cp_model(req, cands, cfg, curve)
        valued == {[sol |-> sol,
                    value |-> cp_objective(req, cands, cfg, curve, model, sol)] :
                      sol \in cp_feasible(req, cands, cfg, curve, model)}
    IN  {[status |-> "FEASIBLE", found |-> TRUE, sol |-> v.sol, value |-> v.value] :
            v \in valued}
        \cup {[status |-> "OPTIMAL", found |-> TRUE, sol |-> v.sol, value |-> v.value] :
                 v \in {b \in valued : \A other \in valued : other.value <= b.value}}
        \cup {[status |-> "UNKNOWN", found |-> FALSE, sol |-> <<>>, value |-> 0]}
        \cup (IF valued = {}
              THEN {[status |-> "INFEASIBLE", found |-> FALSE, sol |-> <<>>,
                     value |-> 0]}
              ELSE {})

\* CPSATSolver.solve after the search: the SolverResult.
cp_solve(req, cands, outcome, iteration) ==
    IF outcome.found
    THEN SolverResult(outcome.status, TRUE,
                      extract_solution(outcome.sol, cands, req, iteration),
                      outcome.value)
    ELSE SolverResult(outcome.status, FALSE, <<>>, 0)

\* _solve_day without the fallback: the CP solver's schedule whatever its status.
solve_day_without_fallback(kind, result, heuristic_schedule) ==
    IF kind = "HEURISTIC"
    THEN [schedule |-> heuristic_schedule,
          stats |-> [solver_type |-> "heuristic", method |-> "heuristic"]]
    ELSE [schedule |-> result.schedule,
          stats |-> [solver_type |-> "cpsat", method |-> "cpsat",
                     status |-> result.status, used |-> "cpsat"]]

\* _solve_day: (schedule, stats) for the result the CP solver gave; the CP
\* solver is not called with solver type HEURISTIC.
solve_day(kind, result, heuristic_schedule) ==
    LET used_cp == kind /= "HEURISTIC" /\ is_feasible(result) /\ result.has_schedule
        cp_schedule == IF used_cp THEN result.schedule ELSE heuristic_schedule
    IN  IF kind = "HEURISTIC"
        THEN [schedule |-> heuristic_schedule,
              stats |-> [solver_type |-> "heuristic", method |-> "heuristic"]]
        ELSE IF kind = "CPSAT"
        THEN [schedule |-> cp_schedule,
              stats |-> IF used_cp
                        THEN [solver_type |-> "cpsat", method |-> "cpsat",
                              status |-> result.status,
                              objective_value |-> result.objective_value]
                        ELSE [solver_type |-> "cpsat", method |-> "cpsat",
                              status |-> result.status,
                              objective_value |-> result.objective_value,
                              fallback |-> TRUE]]
        ELSE [schedule |-> cp_schedule,
              stats |-> [solver_type |-> "hybrid", method |-> "hybrid",
                         cpsat_status |-> result.status,
                         used |-> IF used_cp THEN "cpsat" ELSE "heuristic"]]

-----------------------------------------------------------------------------
(* One day of the demand-aware scheduler: _solve_day with the CP solver:    *)
(* SpecCp.                                                                  *)

NumCpAssociates == 2

SolverType == {"HEURISTIC", "CPSAT", "HYBRID"}

CpProfiles ==
    {<<Availability(0, 20, FALSE), 300, PickingOnly>>,
     <<Availability(0, 16, FALSE), 240, GmdOnly>>,
     <<Availability(0, 26, FALSE), 360, PickingOrSr>>}

\* The workers of requests with several workers.
CoreCpProfiles ==
    {<<Availability(0, 20, FALSE), 300, PickingOnly>>,
     <<Availability(0, 16, FALSE), 240, GmdOnly>>}

CpJobCaps == {default_job_caps, [r \in {"GMD_SM", "SR"} |-> 1]}

CpRequests ==
    {ScheduleRequest(Workers(f), caps, FALSE, 4, <<>>, <<>>) :
        f \in [1..1 -> CpProfiles]
              \cup UNION {[1..n -> CoreCpProfiles] : n \in 2..NumCpAssociates},
        caps \in CpJobCaps}

\* min_staff of so many workers on the given slots, the default elsewhere.
MinStaffOn(slots, staff) ==
    DemandCurve([slot \in slots |-> DemandPoint(slot, staff, staff, 2, "HIGH")], <<>>)

\* No curve, or a minimum of two in the morning, or of one at a break slot or
\* in the evening where no shift can reach.
CpDemandCurves ==
    {NoRecord, MinStaffOn(4..7, 2), MinStaffOn({10}, 1), MinStaffOn({60}, 1)}

InitCp ==
    /\ pc = "solve_day"
    /\ request \in CpRequests
    /\ candidates = generate_all_candidates(request)
    /\ demand_curve \in CpDemandCurves
    /\ solver_type \in SolverType
    /\ config \in {SolverConfig(enforce) : enforce \in BOOLEAN}
    /\ cp_result = None
    /\ schedule = <<>>
    /\ stats = None
    /\ coverage_timeline = <<>> /\ metrics = None
    /\ slot_states = None /\ selected = None /\ cursor = 0 /\ block_state = None
    /\ start_state = None /\ assignment = None /\ errors = None
    /\ NoGen /\ NoWeek

\* _solve_day with the configured solver type.
SolveDay ==
    /\ pc = "solve_day"
    /\ \E outcome \in IF solver_type = "HEURISTIC" THEN {None}
                      ELSE cp_search(request, candidates, config, demand_curve) :
       \E iteration \in RoleIterations :
       \E result \in IF solver_type = "HEURISTIC" THEN {None}
                     ELSE {cp_solve(request, candidates, outcome, iteration)} :
       \E heuristic_schedule \in
              IF solver_type /= "HEURISTIC" /\ is_feasible(result) THEN {<<>>}
              ELSE {solve(request, candidates, request.associates, iteration)} :
       \E day \in {solve_day(solver_type, result, heuristic_schedule)} :
        /\ cp_result' = result
        /\ schedule' = day.schedule
        /\ stats' = day.stats
    /\ pc' = "day_solved"
    /\ UNCHANGED <<request, candidates, demand_curve, solver_type, config,
                   coverage_timeline, metrics, slot_states, selected, cursor,
                   block_state, start_state, assignment, errors, genvars, weekvars>>

NextCp == SolveDay

SpecCp == InitCp /\ [][NextCp]_vars

DaySolvedByCp == pc = "day_solved" /\ solver_type /= "HEURISTIC"

\* The fallback as the day's stats record it.
fallback_recorded ==
    IF solver_type = "CPSAT"
    THEN "fallback" \in DOMAIN stats /\ stats.fallback
    ELSE stats.used = "heuristic"

\* C16: with solver type CPSAT or HYBRID the day's schedule is the CP
\* solver's schedule when its status is OPTIMAL or FEASIBLE; with every other
\* status it is the schedule the heuristic produces from the same request and
\* candidates, and the day's stats record the fallback (fallback = true for
\* CPSAT, used = heuristic for HYBRID).
C16_FallsBackToHeuristic ==
    DaySolvedByCp =>
        IF cp_result.status \in {"OPTIMAL", "FEASIBLE"}
        THEN /\ schedule = cp_result.schedule
             /\ ~fallback_recorded
        ELSE /\ \E iteration \in RoleIterations :
                    schedule = solve(request, candidates, request.associates, iteration)
             /\ fallback_recorded

C16_Witness ==
    /\ DaySolvedByCp
    /\ cp_result.status = "INFEASIBLE"
    /\ solver_type = "CPSAT"
    /\ stats.fallback
    /\ DOMAIN schedule /= {}

\* Some selection of candidates and lunch starts gives a schedule that has
\* min_staff on the floor at every slot of the day.
min_staff_achievable ==
    \E sol \in cp_assignments(cp_model(request, candidates, config, demand_curve).choices,
                              Len(candidates)) :
        \E iteration \in RoleIterations :
            \A slot \in Slots :
                get_coverage_at_slot(extract_solution(sol, candidates, request, iteration),
                                     slot)
                    >= get_min_staff_at_slot(demand_curve, slot)

\* C18: with a demand curve and enforce_min_demand, every schedule the CP
\* solver returns as OPTIMAL or FEASIBLE has coverage_at(t) >= min_staff(t)
\* at every slot t of the day, and when no selection of candidates achieves
\* that the status is not OPTIMAL or FEASIBLE.
C18_MinDemandEnforced ==
    (DaySolvedByCp /\ demand_curve /= NoRecord /\ config.enforce_min_demand) =>
        /\ is_feasible(cp_result) =>
               \A slot \in Slots :
                   get_coverage_at_slot(cp_result.schedule, slot)
                       >= get_min_staff_at_slot(demand_curve, slot)
        /\ ~min_staff_achievable => ~is_feasible(cp_result)

-----------------------------------------------------------------------------
(* ScheduleValidator.validate on schedules that no solver vouches for:     *)
(* SpecValidate.                                                            *)

NumValAssociates == 2
MaxRoleBlocks == 2

\* Every worker may work the whole morning in PICKING or GMD_SM.
ValWorkers(n) ==
    Workers([i \in 1..n |-> <<Availability(0, 16, FALSE), 240, PickingOrGmd>>])

\* Role blocks over the whole shift [0, 16) or over one half of it.
ValJobs ==
    {[block |-> block, role |-> role] :
        block \in {ScheduleBlock(0, 16), ScheduleBlock(0, 8), ScheduleBlock(8, 16)},
        role \in {"PICKING", "GMD_SM"}}

\* A four-hour shift, which takes no lunch and no break.
ValAssignment(id, jobs) ==
    [associate_id |-> id, shift_start_slot |-> 0, shift_end_slot |-> 16,
     lunch_block |-> NoRecord, break_blocks |-> <<>>, job_assignments |-> jobs]

\* The first worker with any list of role blocks, the others with one role
\* over the whole shift.
ValSchedules ==
    {[a \in 1..n |->
         ValAssignment(a, IF a = 1 THEN jobs
                          ELSE <<[block |-> ScheduleBlock(0, 16), role |-> others[a]]>>)] :
        n \in 1..NumValAssociates,
        jobs \in UNION {[1..len -> ValJobs] : len \in 0..MaxRoleBlocks},
        others \in [2..NumValAssociates -> {"PICKING", "GMD_SM"}]}

\* No override, or one for GMD_SM in the first two hours, below or above
\* the global cap.
ValTimeBasedJobCaps ==
    {<<>>} \cup {[slot \in 0..7 |-> [r \in {"GMD_SM"} |-> cap]] : cap \in {1, 3}}

InitValidate ==
    /\ pc = "validate"
    /\ schedule \in ValSchedules
    /\ request \in
           {[ScheduleRequest(ValWorkers(Len(schedule)), caps, FALSE, 4, <<>>, <<>>)
                EXCEPT !.time_based_job_caps = override] :
               caps \in {default_job_caps, [r \in {"GMD_SM"} |-> 1]},
               override \in ValTimeBasedJobCaps}
    /\ errors = None
    /\ candidates = None /\ slot_states = None /\ selected = None /\ cursor = 0
    /\ block_state = None /\ start_state = None /\ assignment = None
    /\ NoGen /\ NoWeek /\ NoDemand /\ NoCp

\* ScheduleValidator.validate
ValidateSchedule ==
    /\ pc = "validate"
    /\ errors' = validate(schedule, request)
    /\ pc' = "validated"
    /\ UNCHANGED <<request, candidates, slot_states, selected, cursor, block_state,
                   start_state, assignment, schedule, weekvars, genvars,
                   demandvars, cpvars>>

NextValidate == ValidateSchedule

SpecValidate == InitValidate /\ [][NextValidate]_vars

\* The number of role blocks of the assignment that contain the slot.
role_blocks_at(asg, slot) ==
    Cardinality({k \in 1..Len(asg.job_assignments) :
                    contains_slot(asg.job_assignments[k].block, slot)})

\* C19: validate reports an error for every shift in which some on-floor
\* slot is covered by no role block or by more than one role block.
C19_RoleBlockErrorsReported ==
    pc = "validated" =>
        \A a \in DOMAIN schedule :
            (\E slot \in schedule[a].shift_start_slot..(schedule[a].shift_end_slot - 1) :
                /\ is_on_floor(schedule[a], slot)
                /\ role_blocks_at(schedule[a], slot) /= 1)
            => \E e \in errors : e.associate_id = a

\* C20: validate reports ROLE_CAP_EXCEEDED for every slot and role whose
\* role coverage exceeds cap(slot, role): the request's time-based override
\* for the slot when there is one, the global cap otherwise.
C20_RoleCapErrorsReported ==
    pc = "validated" =>
        \A slot \in Slots : \A role \in JobRole :
            get_role_coverage_at_slot(schedule, slot, role)
                > get_job_cap(request, slot, role)
            => Error("ROLE_CAP_EXCEEDED", NoInt, role, slot) \in errors

-----------------------------------------------------------------------------
(* The days-off and fairness decisions inside the date loop of SpecWeek.    *)

\* The dates of the period not yet scheduled, the loop's date included.
remaining_today ==
    SubSeq(schedule_dates(week_request), date_i, Len(schedule_dates(week_request)))

\* _get_working_associates asks should_be_day_off about the worker today:
\* the worker is available and has weekly minutes left for a shift.
asks_day_off(a) ==
    LET availability == get_availability(week_request.associates[a],
                                         schedule_dates(week_request)[date_i])
    IN  /\ ~availability.is_off
        /\ slot_count(availability) /= 0
        /\ remaining_minutes(weekly_states[a]) >= min_work_minutes

\* C21: under TWO_CONSECUTIVE should_be_day_off returns true for date d
\* exactly when the worker already has a day off adjacent to d, or has fewer
\* days off than required_days_off and no more dates remain than are still
\* needed; in every other case it returns false.
C21_TwoConsecutiveDecision ==
    (InDateLoop /\ week_request.days_off_pattern = "TWO_CONSECUTIVE") =>
        \A a \in 1..Len(week_request.associates) :
            asks_day_off(a) =>
                (should_be_day_off("TWO_CONSECUTIVE", week_request.required_days_off,
                                   weekly_states[a],
                                   schedule_dates(week_request)[date_i],
                                   remaining_today, schedule_dates(week_request))
                 <=> \/ is_adjacent_to(schedule_dates(week_request)[date_i],
                                       weekly_states[a].days_off)
                     \/ /\ Len(weekly_states[a].days_off)
                               < week_request.required_days_off
                        /\ Len(remaining_today)
                               <= week_request.required_days_off
                                      - Len(weekly_states[a].days_off))

is_weekend(d) == weekday(d) >= weekend_start

\* C22: under ONE_WEEKEND_DAY, when the period contains a weekend date, every
\* worker ends the week with at least one weekend date without a shift: the
\* date is given off when no weekend day is yet off for the worker and it is
\* the last weekend date among the remaining dates.
C22_WeekendDayOff ==
    week_request.days_off_pattern = "ONE_WEEKEND_DAY" =>
        /\ WeekProduced =>
               ((\E d \in DOMAIN day_schedules : is_weekend(d)) =>
                    \A a \in WeekIds :
                        \E d \in DOMAIN day_schedules :
                            is_weekend(d) /\ a \notin DOMAIN day_schedules[d])
        /\ InDateLoop =>
               \A a \in WeekIds :
                   (/\ is_weekend(remaining_today[1])
                    /\ \A k \in 2..Len(remaining_today) : ~is_weekend(remaining_today[k])
                    /\ \A k \in 1..Len(weekly_states[a].days_off) :
                           ~is_weekend(weekly_states[a].days_off[k]))
                   => /\ \A k \in 1..Len(working_today.working) :
                             working_today.working[k].id /= a
                      /\ Contains(working_today.states[a].days_off, remaining_today[1])

\* A worker with a shift on the Saturday is kept off the Sunday, which the
\* worker could have worked, with more dates to come than days off needed.
C22_Witness ==
    /\ WeekProduced
    /\ week_request.days_off_pattern = "ONE_WEEKEND_DAY"
    /\ \E a \in WeekIds : \E d \in DOMAIN day_schedules :
        /\ weekday(d) = weekend_start
        /\ a \in DOMAIN day_schedules[d]
        /\ d + 3 \in DOMAIN day_schedules
        /\ a \notin DOMAIN day_schedules[d + 1]
        /\ ~get_availability(week_request.associates[a], d + 1).is_off
        /\ a \in DOMAIN day_schedules[d + 2]

\* The fairness balancer defers the worker today: the availability, weekly
\* limit and days-off checks let the worker through and should_skip_associate
\* answers true.
deferred(a) ==
    /\ asks_day_off(a)
    /\ ~should_be_day_off(week_request.days_off_pattern,
                          week_request.required_days_off, weekly_states[a],
                          remaining_today[1], remaining_today,
                          schedule_dates(week_request))
    /\ should_skip_associate(weekly_states[a], weekly_states, Len(remaining_today),
                             week_request.max_hours_variance)

\* C23: a worker the fairness balancer defers on a date gets no shift on that
\* date, the date is added to neither days_off nor days_worked,
\* minutes_scheduled is unchanged, and nothing of the deferral is kept for
\* the next date: the worker's weekly state is what it was.
C23_DeferralLeavesNoTrace ==
    [][InDateLoop =>
          \A a \in WeekIds :
              deferred(a) =>
                  /\ a \notin DOMAIN day_schedules'[remaining_today[1]]
                  /\ weekly_states'[a] = weekly_states[a]]_vars

\* A worker who could work on a processed date has no shift and no day off
\* on it, and has a shift on the next date.
C23_Witness ==
    \E a \in WeekIds : \E d \in DOMAIN day_schedules :
        /\ a \notin DOMAIN day_schedules[d]
        /\ ~Contains(weekly_states[a].days_off, d)
        /\ ~Contains(weekly_states[a].days_worked, d)
        /\ d + 1 \in DOMAIN day_schedules
        /\ a \in DOMAIN day_schedules[d + 1]

-----------------------------------------------------------------------------
(* DefaultLunchPolicy.get_lunch_window called on its own: SpecLunchWindow.  *)

MaxWindowStart == 3
MaxWindowSlots == 36

InitLunchWindow ==
    /\ pc = "get_lunch_window"
    /\ gen_in \in {[shift_start_slot |-> start, shift_end_slot |-> start + len,
                    lunch_slots |-> lunch_minutes_in \div slot_minutes,
                    is_busy_day |-> busy] :
                      start \in 0..MaxWindowStart, len \in 1..MaxWindowSlots,
                      lunch_minutes_in \in {0, short_lunch_duration, long_lunch_duration},
                      busy \in BOOLEAN}
    /\ gen_out = <<>>
    /\ NoDay /\ NoWeek /\ NoDemand /\ NoCp

GetLunchWindow ==
    /\ pc = "get_lunch_window"
    /\ gen_out' = get_lunch_window(gen_in.shift_start_slot, gen_in.shift_end_slot,
                                   gen_in.lunch_slots, gen_in.is_busy_day)
    /\ pc' = "window_returned"
    /\ UNCHANGED <<gen_in, dayvars, weekvars, demandvars, cpvars>>

NextLunchWindow == GetLunchWindow

SpecLunchWindow == InitLunchWindow /\ [][NextLunchWindow]_vars

\* C24: for every shift window and every lunch length greater than 0 the
\* window [earliest, latest] of the default lunch policy has
\* earliest <= latest, earliest at least 60 minutes after the shift start,
\* and a lunch that starts at latest ends at least 60 minutes before the
\* shift end.
C24_LunchWindowKeepsHours ==
    (pc = "window_returned" /\ gen_in.lunch_slots > 0) =>
        /\ gen_out.earliest <= gen_out.latest
        /\ gen_out.earliest >= gen_in.shift_start_slot + 60 \div slot_minutes
        /\ gen_out.latest + gen_in.lunch_slots
               <= gen_in.shift_end_slot - 60 \div slot_minutes

-----------------------------------------------------------------------------
(* The lunches, selections and counters of the heuristic's day: SpecDay.    *)

\* solve() has just placed the lunch of the shift at the cursor.
LunchPlaced == pc = "place_breaks" /\ assignment.lunch_block /= NoRecord

\* The window the lunch policy allows the shift at the cursor.
lunch_window_now ==
    get_lunch_window(selected[cursor].start_slot, selected[cursor].end_slot,
                     selected[cursor].lunch_slots, request.is_busy_day)

\* C25: every lunch the heuristic places starts at a slot s inside the lunch
\* policy's window, earliest <= s <= latest, and for a shift that begins
\* before the 8 AM cutoff slot also s >= target, the start that centers the
\* lunch on the middle of the shift.
C25_LunchStartInWindow ==
    LunchPlaced =>
        /\ lunch_window_now.earliest <= assignment.lunch_block.start_slot
        /\ assignment.lunch_block.start_slot <= lunch_window_now.latest
        /\ selected[cursor].start_slot
               < (early_cutoff_minutes - day_start_minutes) \div slot_minutes
           => assignment.lunch_block.start_slot >= lunch_target(selected[cursor])

\* The lunch of a shift that begins before 8 AM is placed after the target
\* because another lunch already starts there.
C25_Witness ==
    /\ LunchPlaced
    /\ selected[cursor].start_slot
           < (early_cutoff_minutes - day_start_minutes) \div slot_minutes
    /\ assignment.lunch_block.start_slot > lunch_target(selected[cursor])
    /\ slot_states[lunch_target(selected[cursor])].lunch_start_count > 0

\* The starts the lunch search of _place_lunch tries for the shift at the
\* cursor: from loop_start to latest, as long as the lunch ends in the shift.
lunch_search_range ==
    {start \in lunch_loop_start(selected[cursor], request.is_busy_day)
                   ..lunch_window_now.latest :
        start + selected[cursor].lunch_slots <= selected[cursor].end_slot}

\* C26: the start the heuristic chooses for a lunch has the smallest
\* lunch_start_count among the starts of its search range, for any number of
\* workers: two lunches begin at the same slot only when every start of the
\* later worker's range already has a lunch beginning there.  (The counts
\* here include the lunch just placed.)
C26_LunchStartLeastUsed ==
    LunchPlaced =>
        \A start \in lunch_search_range :
            slot_states[assignment.lunch_block.start_slot].lunch_start_count - 1
                <= slot_states[start].lunch_start_count

-----------------------------------------------------------------------------
(* The heuristic's day for a large crew: SpecCrew.                          *)

CrewSize == 63
LateCrewSize == 3

\* A crew available from 5:00 to 13:30 and a few workers available from
\* 5:30 to 14:30, all limited to PICKING.
CrewRequest ==
    ScheduleRequest(
        Workers([i \in 1..(CrewSize + LateCrewSize) |->
                    IF i <= CrewSize
                    THEN <<Availability(0, 34, FALSE), 480, PickingOnly>>
                    ELSE <<Availability(2, 38, FALSE), 480, PickingOnly>>]),
        default_job_caps, FALSE, 2, <<>>, <<>>)

InitCrew ==
    /\ pc = "generate_schedule"
    /\ request = CrewRequest
    /\ candidates = <<>>
    /\ slot_states = SelectState.ss
    /\ selected = <<>>
    /\ cursor = 1
    /\ block_state = <<>>
    /\ start_state = <<>>
    /\ assignment = None
    /\ schedule = <<>>
    /\ errors = {}
    /\ NoGen /\ NoDemand /\ NoCp
    /\ NoWeek

SpecCrew == InitCrew /\ [][NextDay]_vars

-----------------------------------------------------------------------------
(* The heuristic's day under shift block and start time limits:            *)
(* SpecLimits.                                                             *)

NumLimitAssociates == 3

\* ShiftBlockConfig.create_default_blocks(): morning 5 AM - 11 AM, day
\* 10 AM - 4 PM, closing 3 PM - 10 PM, each with the default max_associates.
create_default_blocks ==
    <<[block_type |-> "MORNING", start_slot |-> 0,
       end_slot |-> (11 * 60 - day_start_minutes) \div slot_minutes,
       max_associates |-> 999, target_associates |-> NoInt],
      [block_type |-> "DAY",
       start_slot |-> (10 * 60 - day_start_minutes) \div slot_minutes,
       end_slot |-> (16 * 60 - day_start_minutes) \div slot_minutes,
       max_associates |-> 999, target_associates |-> NoInt],
      [block_type |-> "CLOSING",
       start_slot |-> (15 * 60 - day_start_minutes) \div slot_minutes,
       end_slot |-> (22 * 60 - day_start_minutes) \div slot_minutes,
       max_associates |-> 999, target_associates |-> NoInt]>>

\* The shift_block_configs the weekly demo builds from its limits: a default
\* block whose limit is given gets it as max_associates and target_associates.
limited_blocks(limits) ==
    [k \in 1..Len(create_default_blocks) |->
        LET block == create_default_blocks[k]
        IN  IF block.block_type \in DOMAIN limits
            THEN [block EXCEPT !.max_associates = limits[block.block_type],
                               !.target_associates = limits[block.block_type]]
            ELSE block]

LimitBlockConfigs ==
    {<<>>,
     limited_blocks([t \in {"MORNING"} |-> 1]),
     limited_blocks([t \in {"MORNING", "DAY"} |-> 1]),
     limited_blocks([t \in {"MORNING", "DAY", "CLOSING"} |-> 1])}

\* ShiftStartConfig(start_slot, target_count): max_count is target_count.
StartConfig(start_slot, target_count) ==
    [start_slot |-> start_slot, target_count |-> target_count,
     max_count |-> target_count]

LimitStartConfigs ==
    {<<>>, <<StartConfig(0, 1)>>, <<StartConfig(0, 1), StartConfig(20, 2)>>}

LimitProfiles ==
    {<<Availability(0, 68, FALSE), 480, PickingOnly>>,
     <<Availability(0, 34, FALSE), 480, PickingOnly>>,
     <<Availability(20, 60, FALSE), 480, PickingOnly>>}

LimitRequests ==
    {ScheduleRequest(Workers(f), default_job_caps, FALSE, 2, blocks, starts) :
        f \in UNION {[1..n -> LimitProfiles] : n \in 1..NumLimitAssociates},
        blocks \in LimitBlockConfigs, starts \in LimitStartConfigs}

InitLimits ==
    /\ pc = "generate_schedule"
    /\ request \in LimitRequests
    /\ candidates = <<>>
    /\ slot_states = SelectState.ss
    /\ selected = <<>>
    /\ cursor = 1
    /\ block_state = <<>>
    /\ start_state = <<>>
    /\ assignment = None
    /\ schedule = <<>>
    /\ errors = {}
    /\ NoGen /\ NoDemand /\ NoCp
    /\ NoWeek

SpecLimits == InitLimits /\ [][NextDay]_vars

\* The selected shifts whose start slot is in range(lo, hi).
starting_in(lo, hi) ==
    {k \in 1..Len(selected) :
        lo <= selected[k].start_slot /\ selected[k].start_slot < hi}

block_limits_kept ==
    \A k \in 1..Len(request.shift_block_configs) :
        LET block == request.shift_block_configs[k]
        IN  Cardinality(starting_in(block.start_slot, block.end_slot))
                <= block.max_associates

start_limits_kept ==
    \A k \in 1..Len(request.shift_start_configs) :
        LET cfg == request.shift_start_configs[k]
        IN  Cardinality(starting_in(cfg.start_slot, cfg.start_slot + 1))
                <= cfg.max_count

\* The associate the loop of _select_shifts is at has candidates, and the
\* limits reject every one of them.
all_rejected ==
    /\ pc = "select_shifts"
    /\ cursor <= Len(candidates)
    /\ LET assoc_candidates == candidates[sorted_associates(candidates)[cursor]]
       IN  /\ assoc_candidates /= <<>>
           /\ \A k \in 1..Len(assoc_candidates) :
                  at_capacity(assoc_candidates[k], request.shift_block_configs,
                              block_state, request.shift_start_configs,
                              start_state)

rejected_gets_no_shift == [][all_rejected => selected' = selected]_vars

\* C27: during and after the heuristic's shift selection, for every
\* configured shift block at most max_associates selected shifts start in the
\* block, and for every configured start time at most max_count selected
\* shifts start at that slot; a worker all of whose candidates these limits
\* reject gets no shift.
C27_ShiftLimitsKept ==
    /\ [](block_limits_kept /\ start_limits_kept)
    /\ rejected_gets_no_shift

-----------------------------------------------------------------------------
(* One demand-aware week: DemandAwareWeeklyScheduler.generate_schedule with *)
(* the heuristic solver and a weekly demand given: SpecDemandWeek.          *)

\* DaySchedule.get_coverage_timeline
get_coverage_timeline(sched) ==
    [k \in 1..total_slots |-> get_coverage_at_slot(sched, k - 1)]

\* DemandCurve.create_default with its default arguments: base demand 5,
\* peak demand 10 from 10:00 to 14:00.
create_default ==
    LET slots_per_hour == 60 \div slot_minutes
        day_start_hour == 5
        point(slot) ==
            LET current_hour == day_start_hour + (slot * slot_minutes) \div 60
                peak == 10 <= current_hour /\ current_hour < 14
                target == IF peak THEN 10 ELSE 5
            IN  DemandPoint(slot, Max(0, (target * 6) \div 10),
                            target, (target * 15) \div 10 + 1,
                            IF peak THEN "HIGH" ELSE "NORMAL")
    IN  DemandCurve([slot \in 0..(total_slots - 1) |-> point(slot)],
                    <<<<(10 - day_start_hour) * slots_per_hour,
                        (14 - day_start_hour) * slots_per_hour, "HIGH">>>>)

\* WeeklyDemand.get_demand_for_date of a demand without a default profile.
get_demand_for_date(demand, schedule_date) ==
    IF schedule_date \in DOMAIN demand.demand_curves
    THEN demand.demand_curves[schedule_date]
    ELSE create_default

\* A demand with no curve of its own, and one with a curve for the first date.
WeeklyDemands ==
    {[demand_curves |-> <<>>],
     [demand_curves |-> [d \in {Monday} |-> MinStaffOn(4..7, 1)]]}

DemandWeekProfiles == {FullTime, PartWeek}

DemandWeekRequests ==
    {WeeklyScheduleRequest(Monday, n, f, pattern, 2) :
        f \in UNION {[1..k -> DemandWeekProfiles] : k \in 1..NumWeekAssociates},
        pattern \in {"NONE", "TWO_CONSECUTIVE"}, n \in 1..NumDays}

InitDemandWeek ==
    /\ pc = "schedule_demand_week"
    /\ week_request \in DemandWeekRequests
    /\ weekly_states = init_weekly_states(week_request.associates)
    /\ date_i = 1
    /\ day_schedules = <<>>
    /\ week_errors = {}
    /\ demand_curve \in WeeklyDemands
    /\ coverage_timeline = <<>>
    /\ metrics = <<>>
    /\ solver_type = "HEURISTIC"
    /\ config \in {[track_demand_metrics |-> b] : b \in BOOLEAN}
    /\ cp_result = None
    /\ stats = <<>>
    /\ NoGen
    /\ NoDay

\* One iteration of the date loop of generate_schedule: somebody works.
DemandScheduleDay ==
    /\ pc = "schedule_demand_week"
    /\ date_i <= Len(schedule_dates(week_request))
    /\ \E schedule_date \in {schedule_dates(week_request)[date_i]} :
       \E day_demand \in {get_demand_for_date(demand_curve, schedule_date)} :
       \E w \in {working_today} :
        /\ w.working /= <<>>
        /\ \E adjusted \in {adjust_associates_for_weekly_limits(
                                w.working, schedule_date, w.states)} :
           \E day_req \in {[day_request(week_request, schedule_date, adjusted)
                               EXCEPT !.shift_block_configs = <<>>,
                                      !.shift_start_configs = <<>>]} :
           \E cands \in {generate_fairness_aware_candidates(day_req, w.states)} :
           \E iteration \in RoleIterations :
           \E day \in {solve_day(solver_type, None,
                                 solve(day_req, cands, week_request.associates,
                                       iteration))} :
            /\ stats' = put(stats, schedule_date, day.stats)
            /\ coverage_timeline' =
                  IF config.track_demand_metrics
                  THEN get_coverage_timeline(day.schedule)
                  ELSE coverage_timeline
            /\ metrics' =
                  IF config.track_demand_metrics
                  THEN put(metrics, schedule_date,
                           calculate(day_demand,
                                     get_coverage_timeline(day.schedule),
                                     slot_minutes))
                  ELSE metrics
            /\ weekly_states' = update_weekly_states(day.schedule, schedule_date,
                                                     w.states, w.working)
            /\ day_schedules' = put(day_schedules, schedule_date, day.schedule)
    /\ date_i' = date_i + 1
    /\ UNCHANGED <<pc, week_request, week_errors, demand_curve, solver_type,
                   config, cp_result, genvars, dayvars>>

\* One iteration of the date loop: nobody works, the loop continues after
\* storing an empty DaySchedule.
DemandScheduleEmptyDay ==
    /\ pc = "schedule_demand_week"
    /\ date_i <= Len(schedule_dates(week_request))
    /\ \E w \in {working_today} :
        /\ w.working = <<>>
        /\ day_schedules' = put(day_schedules,
                                schedule_dates(week_request)[date_i], <<>>)
        /\ weekly_states' = w.states
    /\ date_i' = date_i + 1
    /\ UNCHANGED <<pc, week_request, week_errors, demandvars, cpvars, genvars,
                   dayvars>>

\* The loop is over: the DemandAwareWeeklyResult is returned.
ReturnDemandWeek ==
    /\ pc = "schedule_demand_week"
    /\ date_i > Len(schedule_dates(week_request))
    /\ pc' = "demand_week_returned"
    /\ UNCHANGED <<weekvars, demandvars, cpvars, genvars, dayvars>>

NextDemandWeek ==
    \/ DemandScheduleDay
    \/ DemandScheduleEmptyDay
    \/ ReturnDemandWeek

SpecDemandWeek == InitDemandWeek /\ [][NextDemandWeek]_vars

\* C28: with demand tracking on, the demand metrics the demand-aware week
\* returns have an entry for every date of the request (each has a demand
\* curve once a weekly demand is given), computed from the coverage timeline
\* of that date's schedule, whether or not anybody is scheduled on the date.
C28_MetricsForEveryDate ==
    (pc = "demand_week_returned" /\ config.track_demand_metrics) =>
        \A k \in 1..Len(schedule_dates(week_request)) :
            LET d == schedule_dates(week_request)[k]
            IN  /\ d \in DOMAIN metrics
                /\ metrics[d] =
                      calculate(get_demand_for_date(demand_curve, d),
                                get_coverage_timeline(day_schedules[d]),
                                slot_minutes)

-----------------------------------------------------------------------------
(* The counters of the heuristic's slot states: SpecDay.                    *)

\* The workers of the schedule for whom the predicate on assignments holds.
on_lunch_at(slot) ==
    {a \in DOMAIN schedule :
        /\ schedule[a].lunch_block /= NoRecord
        /\ contains_slot(schedule[a].lunch_block, slot)}

on_break_at(slot) ==
    {a \in DOMAIN schedule :
        \E k \in 1..Len(schedule[a].break_blocks) :
            contains_slot(schedule[a].break_blocks[k], slot)}

lunch_starts_at(slot) ==
    {a \in DOMAIN schedule :
        /\ schedule[a].lunch_block /= NoRecord
        /\ schedule[a].lunch_block.start_slot = slot}

counters_match_schedule ==
    \A slot \in Slots :
        /\ slot_states[slot].on_floor_count = get_coverage_at_slot(schedule, slot)
        /\ slot_states[slot].on_lunch_count = Cardinality(on_lunch_at(slot))
        /\ slot_states[slot].on_break_count = Cardinality(on_break_at(slot))
        /\ slot_states[slot].lunch_start_count = Cardinality(lunch_starts_at(slot))
        /\ \A r \in JobRole :
              slot_states[slot].role_counts[r]
                  = get_role_coverage_at_slot(schedule, slot, r)

counters_not_negative ==
    \A slot \in Slots :
        /\ slot_states[slot].on_floor_count >= 0
        /\ slot_states[slot].on_lunch_count >= 0
        /\ slot_states[slot].on_break_count >= 0
        /\ slot_states[slot].lunch_start_count >= 0
        /\ \A r \in JobRole : slot_states[slot].role_counts[r] >= 0

\* C29: when the heuristic has finished a day, the counters of every slot
\* equal the derived views of the returned schedule (on-floor coverage,
\* workers on lunch, workers on break, lunches starting at the slot, and
\* role coverage per role); and no counter is negative at any point of the
\* run.
C29_CountersMatchSchedule ==
    /\ counters_not_negative
    /\ Produced => counters_match_schedule

\* A finished day of two workers whose shifts overlap, with a lunch, a break
\* and a role other than PICKING counted at some slots, and a slot where
\* one of the two is on the floor while the other is on lunch.
C29_Witness ==
    /\ Produced
    /\ Cardinality(DOMAIN schedule) = 2
    /\ \E slot \in Slots : slot_states[slot].on_floor_count = 2
    /\ \E slot \in Slots :
        /\ slot_states[slot].on_lunch_count = 1
        /\ slot_states[slot].on_floor_count = 1
    /\ \E slot \in Slots : slot_states[slot].on_break_count >= 1
    /\ \E slot \in Slots : slot_states[slot].lunch_start_count = 1
    /\ \E slot \in Slots : slot_states[slot].role_counts["GMD_SM"] >= 1

-----------------------------------------------------------------------------
(* FairnessBalancer.should_skip_associate called on its own: SpecFairness.  *)

NumFairAssociates == 3
MaxFairShifts == 4

\* FairnessConfig.max_hours_variance: none, one hour, the default two hours
\* and the sixteen hours of the realistic demo.
FairnessVariances == {0, 60, 120, 960}

\* Weekly states after zero to MaxFairShifts shifts of four hours each.
FairnessStates ==
    UNION {[1..n -> {[AssociateWeeklyState([max_minutes_per_week |-> 2400])
                        EXCEPT !.minutes_scheduled = shifts * min_work_minutes] :
                     shifts \in 0..MaxFairShifts}] :
           n \in 1..NumFairAssociates}

InitFairness ==
    /\ pc = "should_skip_associate"
    /\ gen_in \in {[all_states |-> all_states, remaining_days |-> days,
                    max_hours_variance |-> variance] :
                      all_states \in FairnessStates, days \in 0..2,
                      variance \in FairnessVariances}
    /\ gen_out = <<>>
    /\ NoDay /\ NoWeek /\ NoDemand /\ NoCp

\* should_skip_associate asked about every worker of all_states in turn.
ShouldSkipAssociate ==
    /\ pc = "should_skip_associate"
    /\ gen_out' = [a \in 1..Len(gen_in.all_states) |->
                      should_skip_associate(gen_in.all_states[a],
                                            gen_in.all_states,
                                            gen_in.remaining_days,
                                            gen_in.max_hours_variance)]
    /\ pc' = "skip_decided"
    /\ UNCHANGED <<gen_in, dayvars, weekvars, demandvars, cpvars>>

NextFairness == ShouldSkipAssociate

SpecFairness == InitFairness /\ [][NextFairness]_vars

\* C30: with max_hours_variance >= 0 the fairness balancer never defers a
\* worker whose minutes_scheduled is at most the average of all workers; the
\* worker with the fewest minutes is never deferred, so deferral alone never
\* removes every worker.
C30_BehindNeverDeferred ==
    pc = "skip_decided" =>
        LET all_states == gen_in.all_states
            n == Len(all_states)
            total == SumSeq(all_minutes(all_states), 1)
        IN  /\ \A a \in 1..n :
                  n * all_states[a].minutes_scheduled <= total => ~gen_out[a]
            /\ \A a \in 1..n :
                  (\A b \in 1..n : all_states[a].minutes_scheduled
                                       <= all_states[b].minutes_scheduled)
                      => ~gen_out[a]
            /\ \E a \in 1..n : ~gen_out[a]

\* The balancer defers one of three workers: the one far ahead of the others.
C30_Witness ==
    /\ pc = "skip_decided"
    /\ Len(gen_out) = 3
    /\ \E a \in 1..3 : gen_out[a] /\ \A b \in (1..3) \ {a} : ~gen_out[b]

=============================================================================
